---- MODULE Spec2Model ----
(***************************************************************************)
(* Resource manager and device front end of neptune_vulkan:                *)
(* generational slot maps of persistent buffers, images and samplers, the  *)
(* two-stage deferred deletion queues advanced by flush_frame, the         *)
(* transient lists and the pending transfer list.                          *)
(***************************************************************************)
EXTENDS Integers, Sequences, FiniteSets, TLC

\* ------------------------------------------------------------------ bounds
MaxSlots == 2            \* table slots and transient objects, all kinds together
MaxVersion == 3          \* highest slot version an insert may produce
MaxPending == 2          \* keys waiting in the four deletion queues together
MaxFramesInFlight == 3   \* largest DeviceSettings.frames_in_flight tried
MaxTransient == 2        \* transient objects of one kind alive between two flushes
MaxTransfers == 2        \* pending (staging, target) uploads
MaxDescs == 1            \* descriptions in one graph resource list
MaxPasses == 4          \* passes whose transitions are kept in the history

\* descriptions in a graph whose transient sizes are resolved
MaxChain == 2

\* rebuilds of a swapchain that are told apart; further ones count as the last
MaxRebuilds == 4

\* images of a swapchain
MaxImages == 3

\* swapchains created by one device
MaxSwapchains == 3

\* values of swapchain handles the driver hands out
MaxHandles == 3

\* vk images, and allocations, that are live at a time
MaxTextures == 3

\* largest image count and largest extent component of a surface
MaxCount == 3

\* u32::MAX, with u32 narrowed to three bits
U32_MAX == 7

VARIABLES
    rm,                  \* Device.persistent_resource_manager: the ResourceManager
    transfer_list,       \* Device.transfer_list: Vec<(BufferHandle, BufferHandle)>
    ret,                 \* the last call: its name, argument, outcome and log lines
    issued,              \* history: the keys each table has handed out
    flushes,             \* history: per key, flush_frame calls since its destroy
    passes,              \* history: per executed pass, the transitions it made
    swapchain_manager,   \* Device.swapchain_manager: the swapchains by surface
    released,            \* history: the surfaces release_surface was called for
    swapchain,           \* a Swapchain and the acquire_next_image call running on it
    ash_images           \* the vk images and allocations of the AshImages of texture.rs

\* what the operations of the resource tables leave alone
surface_vars == <<swapchain_manager, released, swapchain, ash_images>>

vars == <<rm, transfer_list, ret, issued, flushes, passes, swapchain_manager, released,
          swapchain, ash_images>>

\* Option::None, and the absence of a value
Null == [tag |-> "None"]

\* Err(VulkanError)
Err(e) == [tag |-> "Err", error |-> e]

\* ---------------------------------------------------------------- slot map
\* slotmap::SlotMap: a vector of slots, each with a version that is odd while
\* the slot is occupied and even while it is vacant, and a LIFO free list.
\* A key is (index, version of the slot when the value was inserted).
Key(i, v) == [idx |-> i, version |-> v]

NullKey == Key(0, 1)

OddVersions == {v \in 1..MaxVersion : v % 2 = 1}

KeySpace == {Key(i, v) : i \in 1..MaxSlots, v \in OddVersions}

EmptySlotMap == [slots |-> <<>>, free |-> <<>>]

SlotMapContains(sm, k) ==
    /\ k.idx \in DOMAIN sm.slots
    /\ sm.slots[k.idx].version = k.version

SlotMapGet(sm, k) ==
    IF SlotMapContains(sm, k) THEN sm.slots[k.idx].value ELSE Null

SlotMapKeys(sm) ==
    {Key(i, sm.slots[i].version) : i \in {j \in DOMAIN sm.slots : sm.slots[j].version % 2 = 1}}

\* the key insert returns: the head of the free list, else a new slot
SlotMapNextKey(sm) ==
    IF sm.free # <<>>
    THEN Key(Head(sm.free), sm.slots[Head(sm.free)].version + 1)
    ELSE Key(Len(sm.slots) + 1, 1)

\* the slot taken from the free list gets back the version it had when occupied
SlotMapInsertSameVersion(sm, value) ==
    IF sm.free # <<>>
    THEN [sm EXCEPT !.slots[Head(sm.free)] = [version |-> @.version - 1, value |-> value],
                    !.free = Tail(@)]
    ELSE [sm EXCEPT !.slots = Append(@, [version |-> 1, value |-> value])]

SlotMapInsert(sm, value) ==
    IF sm.free # <<>>
    THEN [sm EXCEPT !.slots[Head(sm.free)] = [version |-> @.version + 1, value |-> value],
                    !.free = Tail(@)]
    ELSE [sm EXCEPT !.slots = Append(@, [version |-> 1, value |-> value])]

\* the version check is dropped: any occupied slot at the key's index is removed
SlotMapRemoveByIndex(sm, k) ==
    IF k.idx \in DOMAIN sm.slots /\ sm.slots[k.idx].version % 2 = 1
    THEN [sm EXCEPT !.slots[k.idx] = [version |-> @.version + 1, value |-> Null],
                    !.free = <<k.idx>> \o @]
    ELSE sm

SlotMapRemove(sm, k) ==
    IF SlotMapContains(sm, k)
    THEN [sm EXCEPT !.slots[k.idx] = [version |-> @.version + 1, value |-> Null],
                    !.free = <<k.idx>> \o @]
    ELSE sm

\* an insert is modelled while the slot maps stay within the bounds
SlotMapCanInsert(sm, slots_in_use) ==
    IF sm.free # <<>>
    THEN sm.slots[Head(sm.free)].version + 1 <= MaxVersion
    ELSE slots_in_use < MaxSlots

Range(s) == {s[i] : i \in DOMAIN s}

Min(a, b) == IF a < b THEN a ELSE b

\* ------------------------------------------------------------ return values
Ret(op, arg, out, val, log) ==
    [op |-> op, arg |-> arg, out |-> out, val |-> val, log |-> log]

\* a panic (todo!(), unwrap() on None, indexing a missing key) or an exhausted
\* stack ends the program
Running == ret.out \notin {"panic", "stack_overflow"}

\* --------------------------------------------------------------- resources
BufferAccesses == {"None", "TransferRead", "TransferWrite", "VertexRead", "IndexRead",
                   "IndirectRead", "UniformRead", "StorageRead", "StorageWrite"}

ImageAccesses == {"None", "TransferRead", "TransferWrite", "AttachmentWrite",
                  "SampledRead", "StorageRead", "StorageWrite"}

\* vk::PipelineStageFlags2 and vk::AccessFlags2 values are sets of flag names
shader_all == {"VERTEX_SHADER", "FRAGMENT_SHADER", "COMPUTE_SHADER", "TASK_SHADER_EXT",
               "MESH_SHADER_EXT", "RAY_TRACING_SHADER_KHR"}

BufferBarrierFlags(stage_mask, access_flags) ==
    [stage_mask |-> stage_mask, access_flags |-> access_flags]

\* the lookup reads the resource manager: unused as long as no buffer exists
BufferResourceAccess_get_barrier_flags_stateful(self) ==
    IF rm.buffers.slots = <<>> \/ self = "None"
    THEN BufferBarrierFlags({}, {})
    ELSE BufferBarrierFlags({"TRANSFER"}, {"MEMORY_READ"})

\* BufferResourceAccess::get_barrier_flags
BufferResourceAccess_get_barrier_flags(self) ==
    CASE self = "None" -> BufferBarrierFlags({}, {})
      [] self = "TransferRead" -> BufferBarrierFlags({"TRANSFER"}, {"MEMORY_READ"})
      [] self = "TransferWrite" -> BufferBarrierFlags({"TRANSFER"}, {"MEMORY_WRITE"})
      [] self = "VertexRead" -> BufferBarrierFlags({"VERTEX_INPUT"}, {"VERTEX_ATTRIBUTE_READ"})
      [] self = "IndexRead" -> BufferBarrierFlags({"VERTEX_INPUT"}, {"INDEX_READ"})
      [] self = "IndirectRead" -> BufferBarrierFlags({"DRAW_INDIRECT"}, {"INDIRECT_COMMAND_READ"})
      [] self = "UniformRead" -> BufferBarrierFlags(shader_all, {"UNIFORM_READ"})
      [] self = "StorageRead" -> BufferBarrierFlags(shader_all, {"SHADER_STORAGE_READ"})
      [] self = "StorageWrite" -> BufferBarrierFlags(shader_all, {"SHADER_WRITE"})

ImageBarrierFlags(stage_mask, access_flags, layout) ==
    [stage_mask |-> stage_mask, access_flags |-> access_flags, layout |-> layout]

\* ImageResourceAccess::get_barrier_flags
ImageResourceAccess_get_barrier_flags(self, is_color_image) ==
    CASE self = "None" -> ImageBarrierFlags({}, {}, "UNDEFINED")
      [] self = "TransferRead" ->
            ImageBarrierFlags({"TRANSFER"}, {"TRANSFER_READ"}, "TRANSFER_SRC_OPTIMAL")
      [] self = "TransferWrite" ->
            ImageBarrierFlags({"TRANSFER"}, {"TRANSFER_WRITE"}, "TRANSFER_DST_OPTIMAL")
      [] self = "AttachmentWrite" ->
            IF is_color_image
            THEN ImageBarrierFlags({"COLOR_ATTACHMENT_OUTPUT"}, {"COLOR_ATTACHMENT_WRITE"},
                                   "COLOR_ATTACHMENT_OPTIMAL")
            ELSE ImageBarrierFlags({"EARLY_FRAGMENT_TESTS", "LATE_FRAGMENT_TESTS"},
                                   {"DEPTH_STENCIL_ATTACHMENT_WRITE"}, "ATTACHMENT_OPTIMAL")
      [] self = "SampledRead" ->
            ImageBarrierFlags(shader_all, {"SHADER_READ"}, "SHADER_READ_ONLY_OPTIMAL")
      [] self = "StorageRead" -> ImageBarrierFlags(shader_all, {"SHADER_READ"}, "GENERAL")
      [] self = "StorageWrite" -> ImageBarrierFlags(shader_all, {"SHADER_WRITE"}, "GENERAL")

\* Buffer: usage (STORAGE_BUFFER requested or not) and the bound storage slot
NewBuffer(storage) == [storage |-> storage, storage_binding |-> "None"]

BufferResource(buffer, storage_binding) ==
    [buffer |-> [buffer EXCEPT !.storage_binding = storage_binding],
     last_access |-> "None"]

\* Image: usage (STORAGE, SAMPLED) and the two bound slots
NewImage(size, storage, sampled) ==
    [size |-> size, storage |-> storage, sampled |-> sampled,
     storage_binding |-> "None", sampled_binding |-> "None"]

ImageResource(image, storage_binding, sampled_binding) ==
    [image |-> [image EXCEPT !.storage_binding = storage_binding,
                             !.sampled_binding = sampled_binding]]

Persistent(k) == [tag |-> "Persistent", key |-> k]

Transient(i) == [tag |-> "Transient", index |-> i]

\* ------------------------------------------------------ history of passes
\* one transition: the call that made it, the resource, the last access the
\* call returned for it and the access the pass asked for
Transition(via, key, last_access, access) ==
    [via |-> via, key |-> key, last_access |-> last_access, access |-> access]

\* ---------------------------------------------------- access/barrier tracker
\* a transition from the stored last access to the requested access emits a
\* barrier unless both are None
EmitsBarrier(last_access, access) == ~(last_access = "None" /\ access = "None")

\* the barrier of a buffer transition: source and destination masks
BufferBarrier(last_access, access) ==
    [src |-> BufferResourceAccess_get_barrier_flags(last_access),
     dst |-> BufferResourceAccess_get_barrier_flags(access)]

\* the barriers emitted for a sequence of transitions, in order
RECURSIVE BufferBarriers(_)
BufferBarriers(ts) ==
    IF ts = <<>> THEN <<>>
    ELSE (IF EmitsBarrier(Head(ts).last_access, Head(ts).access)
          THEN <<BufferBarrier(Head(ts).last_access, Head(ts).access)>>
          ELSE <<>>)
         \o BufferBarriers(Tail(ts))

\* the transitions of a resolved list: one per Persistent description, with the
\* last access returned for it and the access the graph's passes leave it with
RECURSIVE NoteResolved(_, _, _, _, _)
NoteResolved(via, descs, resources, access, i) ==
    IF i > Len(descs) THEN <<>>
    ELSE (IF descs[i].tag = "Persistent"
          THEN <<Transition(via, descs[i].key,
                            IF via = "get_buffer_resources" THEN resources[i].last_access
                            ELSE resources[i].last_usage, access)>>
          ELSE <<>>)
         \o NoteResolved(via, descs, resources, access, i + 1)

\* ------------------------------------------------- history of destroy calls
\* flushes.buffers[k] = n >= 0: k was passed to remove_buffer while it was in
\* the table, and flush_frame has run n times since then, up to and including
\* the call that found k in the table for the last time; -1: never destroyed.
NoFlushes == [k \in KeySpace |-> -1]

NoteDestroy(f, sm, k) ==
    IF k \in KeySpace /\ SlotMapContains(sm, k) /\ f[k] = -1
    THEN [f EXCEPT ![k] = 0] ELSE f

NoteFlush(f, sm_before) ==
    [k \in KeySpace |->
        IF f[k] >= 0 /\ SlotMapContains(sm_before, k)
        THEN Min(f[k] + 1, MaxFramesInFlight) ELSE f[k]]

\* the keys a step has put into the tables join the keys handed out
NoteIssued(h, before, after) ==
    [buffers |-> h.buffers \cup (SlotMapKeys(after.buffers) \ SlotMapKeys(before.buffers)),
     images |-> h.images \cup (SlotMapKeys(after.images) \ SlotMapKeys(before.images)),
     samplers |-> h.samplers \cup (SlotMapKeys(after.samplers) \ SlotMapKeys(before.samplers))]

\* --------------------------------------------------------- ResourceManager
\* ResourceManager::new
NewResourceManager ==
    [buffers |-> EmptySlotMap, freed_buffers |-> <<>>,
     images |-> EmptySlotMap, freed_images |-> <<>>,
     samplers |-> EmptySlotMap,
     freed_buffers2 |-> <<>>, freed_images2 |-> <<>>,
     transient_buffers |-> <<>>, transient_images |-> <<>>]

RECURSIVE RemoveAll(_, _)
RemoveAll(sm, keys) ==
    IF keys = <<>> THEN sm
    ELSE RemoveAll(SlotMapRemove(sm, Head(keys)), Tail(keys))

\* warn!("...Key was invalid on deletion") lines of one drain loop
RECURSIVE InvalidOnDeletion(_, _)
InvalidOnDeletion(sm, keys) ==
    IF keys = <<>> THEN 0
    ELSE (IF SlotMapContains(sm, Head(keys)) THEN 0 ELSE 1)
         + InvalidOnDeletion(SlotMapRemove(sm, Head(keys)), Tail(keys))

\* the ring is skipped: the keys queued in this frame are removed at once
flush_frame_one_stage(self) ==
    [self EXCEPT !.buffers = RemoveAll(@, self.freed_buffers2 \o self.freed_buffers),
                 !.images = RemoveAll(@, self.freed_images2 \o self.freed_images),
                 !.freed_buffers2 = <<>>,
                 !.freed_images2 = <<>>,
                 !.freed_buffers = <<>>,
                 !.freed_images = <<>>,
                 !.transient_buffers = <<>>,
                 !.transient_images = <<>>]

\* the persistent tables are cleared together with the transient lists
flush_frame_clear_all(self) ==
    [self EXCEPT !.buffers = EmptySlotMap,
                 !.images = EmptySlotMap,
                 !.freed_buffers2 = self.freed_buffers,
                 !.freed_images2 = self.freed_images,
                 !.freed_buffers = <<>>,
                 !.freed_images = <<>>,
                 !.transient_buffers = <<>>,
                 !.transient_images = <<>>]

\* the transient lists are kept while a deletion is pending
flush_frame_keeps_transients(self) ==
    [self EXCEPT !.buffers = RemoveAll(@, self.freed_buffers2),
                 !.images = RemoveAll(@, self.freed_images2),
                 !.freed_buffers2 = self.freed_buffers,
                 !.freed_images2 = self.freed_images,
                 !.freed_buffers = <<>>,
                 !.freed_images = <<>>,
                 !.transient_buffers =
                     IF self.freed_buffers \o self.freed_buffers2 = <<>> THEN <<>> ELSE @,
                 !.transient_images =
                     IF self.freed_images \o self.freed_images2 = <<>> THEN <<>> ELSE @]

flush_frame(self) ==
    [self EXCEPT !.buffers = RemoveAll(@, self.freed_buffers2),
                 !.images = RemoveAll(@, self.freed_images2),
                 !.freed_buffers2 = self.freed_buffers,
                 !.freed_images2 = self.freed_images,
                 !.freed_buffers = <<>>,
                 !.freed_images = <<>>,
                 !.transient_buffers = <<>>,
                 !.transient_images = <<>>]

\* descriptor_set.bind_storage_buffer when the usage has STORAGE_BUFFER
add_buffer(self, buffer) ==
    [self EXCEPT !.buffers = SlotMapInsert(@,
        BufferResource(buffer, IF buffer.storage THEN "Some" ELSE "None"))]

get_buffer(self, key) ==
    IF SlotMapContains(self.buffers, key) THEN SlotMapGet(self.buffers, key).buffer
    ELSE Null

\* the stored access is returned and left as it was
get_and_update_buffer_resource_keeps(self, key, new_last_access) ==
    IF SlotMapContains(self.buffers, key)
    THEN [self |-> self,
          val |-> [tag |-> "Some",
                   buffer |-> SlotMapGet(self.buffers, key).buffer,
                   last_access |-> SlotMapGet(self.buffers, key).last_access]]
    ELSE [self |-> self, val |-> Null]

\* std::mem::replace(&mut resource.last_access, new_last_access)
get_and_update_buffer_resource(self, key, new_last_access) ==
    IF SlotMapContains(self.buffers, key)
    THEN [self |-> [self EXCEPT !.buffers.slots[key.idx].value.last_access = new_last_access],
          val |-> [tag |-> "Some",
                   buffer |-> SlotMapGet(self.buffers, key).buffer,
                   last_access |-> SlotMapGet(self.buffers, key).last_access]]
    ELSE [self |-> self, val |-> Null]

\* the key is removed from the table by the call itself
remove_buffer_at_once(self, key) ==
    [self EXCEPT !.buffers = SlotMapRemove(@, key)]

remove_buffer(self, key) ==
    [self EXCEPT !.freed_buffers = Append(@, key)]

\* bind_storage_image / bind_sampled_image when the usage asks for them
\* a variant of add_image that binds no sampled image
add_image_storage_only(self, image) ==
    [self EXCEPT !.images = SlotMapInsert(@,
        ImageResource(image, IF image.storage THEN "Some" ELSE "None", "None"))]

add_image(self, image) ==
    [self EXCEPT !.images = SlotMapInsert(@,
        ImageResource(image, IF image.storage THEN "Some" ELSE "None",
                             IF image.sampled THEN "Some" ELSE "None"))]

get_image(self, key) ==
    IF SlotMapContains(self.images, key) THEN SlotMapGet(self.images, key).image
    ELSE Null

remove_image(self, key) ==
    [self EXCEPT !.freed_images = Append(@, key)]

\* every sampler is bound: sampler.binding = Some(bind_sampler)
add_sampler(self, sampler) ==
    [self EXCEPT !.samplers = SlotMapInsert(@, [sampler EXCEPT !.binding = "Some"])]

get_sampler(self, key) == SlotMapGet(self.samplers, key)

remove_sampler(self, key) ==
    [self EXCEPT !.samplers = SlotMapRemove(@, key)]

\* ---------------------------------------------------------- graph functions
PersistentDesc(k) == [tag |-> "Persistent", key |-> k]

TransientBufferDesc(storage) == [tag |-> "Transient", storage |-> storage]

\* Resolves buffers[i..] in order. fail_at is the element whose Buffer::new fails
\* (0: none). Indexing self.buffers with a missing key panics.
RECURSIVE ResolveBuffers(_, _, _, _, _)
ResolveBuffers(self, buffers_in, i, fail_at, buffer_resources) ==
    IF i > Len(buffers_in)
    THEN [self |-> self, out |-> "ok", val |-> buffer_resources]
    ELSE IF buffers_in[i].tag = "Persistent"
    THEN IF ~SlotMapContains(self.buffers, buffers_in[i].key)
         THEN [self |-> self, out |-> "panic", val |-> Null]
         ELSE ResolveBuffers(self, buffers_in, i + 1, fail_at,
                  Append(buffer_resources,
                      [buffer |-> SlotMapGet(self.buffers, buffers_in[i].key).buffer,
                       last_access |-> SlotMapGet(self.buffers, buffers_in[i].key).last_access]))
    ELSE IF i = fail_at
    THEN [self |-> self, out |-> "err", val |-> Err("AllocationFailure")]
    ELSE LET buffer == [NewBuffer(buffers_in[i].storage) EXCEPT
                            !.storage_binding = IF buffers_in[i].storage THEN "Some" ELSE "None"]
         IN ResolveBuffers([self EXCEPT !.transient_buffers = Append(@, buffer)],
                buffers_in, i + 1, fail_at,
                Append(buffer_resources, [buffer |-> buffer, last_access |-> "None"]))

\* the transient buffers of the earlier resolutions are dropped first
get_buffer_resources_clears(self, buffers_in, fail_at) ==
    ResolveBuffers([self EXCEPT !.transient_buffers = <<>>], buffers_in, 1, fail_at, <<>>)

\* a variant that gives up the transient buffers it made when a later one fails
get_buffer_resources_undoes(self, buffers_in, fail_at) ==
    LET r == ResolveBuffers(self, buffers_in, 1, fail_at, <<>>)
    IN IF r.out = "err" THEN [r EXCEPT !.self = self] ELSE r

\* a variant that forgets the last access of every buffer of the table
get_buffer_resources_forgets(self, buffers_in, fail_at) ==
    ResolveBuffers(
        [self EXCEPT !.buffers.slots =
            [i \in DOMAIN @ |-> IF @[i].version % 2 = 1
                                THEN [@[i] EXCEPT !.value.last_access = "None"]
                                ELSE @[i]]],
        buffers_in, 1, fail_at, <<>>)

\* a new transient buffer takes over the last access of the table's first buffer
get_buffer_resources_inherits(self, buffers_in, fail_at) ==
    LET r == ResolveBuffers(self, buffers_in, 1, fail_at, <<>>)
    IN IF r.out # "ok" \/ self.buffers.slots = <<>> THEN r
       ELSE [r EXCEPT !.val =
                [i \in DOMAIN r.val |->
                    IF buffers_in[i].tag = "Transient"
                    THEN [r.val[i] EXCEPT !.last_access = self.buffers.slots[1].value.last_access]
                    ELSE r.val[i]]]

get_buffer_resources(self, buffers_in, fail_at) ==
    ResolveBuffers(self, buffers_in, 1, fail_at, <<>>)

Extent2D(w, h) == [width |-> w, height |-> h]

Exact(extent) == [tag |-> "Exact", extent |-> extent]

\* scale: [f32; 2], each factor a fraction <<numerator, denominator>> that f32
\* holds exactly
Relative(scale, target) == [tag |-> "Relative", scale |-> scale, target |-> target]

TransientImageDesc(size, storage, sampled) ==
    [tag |-> "Transient", size |-> size, storage |-> storage, sampled |-> sampled]

SwapchainDesc(index) == [tag |-> "Swapchain", index |-> index]

\* ((extent.width as f32) * scale[0]) as u32: the product truncated
ScaledByFirst(extent, scale) ==
    Extent2D((extent.width * scale[1][1]) \div scale[1][2],
             (extent.height * scale[1][1]) \div scale[1][2])

Scaled(extent, scale) ==
    Extent2D((extent.width * scale[1][1]) \div scale[1][2],
             (extent.height * scale[2][1]) \div scale[2][2])

\* get_image(key).as_ref().unwrap().size
UnwrapImageSize(persistent, image_key) ==
    IF get_image(persistent, image_key) = Null
    THEN [out |-> "panic", extent |-> Null]
    ELSE [out |-> "ok", extent |-> get_image(persistent, image_key).size]

\* images[index] and swapchain_images[index] panic out of range (0-based index)
\* depth counts the nested calls: more than Len(images) of them means that a
\* description is visited twice, and the recursion then never returns.
RECURSIVE get_transient_image_size(_, _, _, _, _)
get_transient_image_size(size, persistent, images_in, swapchain_images, depth) ==
    IF size.tag = "Exact" THEN [out |-> "ok", extent |-> size.extent]
    ELSE LET target == size.target
             extent ==
                IF target.tag = "Persistent"
                THEN UnwrapImageSize(persistent, target.key)
                ELSE IF target.index + 1 \notin DOMAIN images_in
                THEN [out |-> "panic", extent |-> Null]
                ELSE LET d == images_in[target.index + 1] IN
                     IF d.tag = "Persistent" THEN UnwrapImageSize(persistent, d.key)
                     ELSE IF d.tag = "Transient"
                     THEN IF depth >= Len(images_in)
                          THEN [out |-> "stack_overflow", extent |-> Null]
                          ELSE get_transient_image_size(d.size, persistent, images_in,
                                                        swapchain_images, depth + 1)
                     ELSE IF d.index + 1 \notin DOMAIN swapchain_images
                          THEN [out |-> "panic", extent |-> Null]
                          ELSE [out |-> "ok", extent |-> swapchain_images[d.index + 1]]
         IN IF extent.out # "ok" THEN extent
            ELSE [out |-> "ok", extent |-> Scaled(extent.extent, size.scale)]

RECURSIVE ResolveImages(_, _, _, _, _, _)
ResolveImages(self, swapchain_images, images_in, i, fail_at, image_resources) ==
    IF i > Len(images_in)
    THEN [self |-> self, out |-> "ok", val |-> image_resources]
    ELSE IF images_in[i].tag = "Persistent"
    THEN IF ~SlotMapContains(self.images, images_in[i].key)
         THEN [self |-> self, out |-> "panic", val |-> Null]
         ELSE ResolveImages(self, swapchain_images, images_in, i + 1, fail_at,
                  Append(image_resources,
                      [image |-> SlotMapGet(self.images, images_in[i].key).image,
                       last_usage |-> "None"]))
    ELSE IF images_in[i].tag = "Transient"
    THEN LET image_size == get_transient_image_size(images_in[i].size, self, images_in,
                                                    swapchain_images, 1)
         IN IF image_size.out # "ok"
            THEN [self |-> self, out |-> image_size.out, val |-> Null]
            ELSE IF i = fail_at
            THEN [self |-> self, out |-> "err", val |-> Err("AllocationFailure")]
            ELSE LET image == [NewImage(image_size.extent, images_in[i].storage,
                                        images_in[i].sampled) EXCEPT
                        !.storage_binding = IF images_in[i].storage THEN "Some" ELSE "None",
                        !.sampled_binding = IF images_in[i].sampled THEN "Some" ELSE "None"]
                 IN ResolveImages([self EXCEPT !.transient_images = Append(@, image)],
                        swapchain_images, images_in, i + 1, fail_at,
                        Append(image_resources, [image |-> image, last_usage |-> "None"]))
    ELSE IF images_in[i].index + 1 \notin DOMAIN swapchain_images
         THEN [self |-> self, out |-> "panic", val |-> Null]
         ELSE ResolveImages(self, swapchain_images, images_in, i + 1, fail_at,
                  Append(image_resources,
                      [image |-> [size |-> swapchain_images[images_in[i].index + 1]],
                       last_usage |-> "None"]))

get_image_resources(self, swapchain_images, images_in, fail_at) ==
    ResolveImages(self, swapchain_images, images_in, 1, fail_at, <<>>)

\* ------------------------------------------------------------------ inputs
SlotsInUse ==
    Len(rm.buffers.slots) + Len(rm.images.slots) + Len(rm.samplers.slots)
    + Len(rm.transient_buffers) + Len(rm.transient_images)

Pending == Len(rm.freed_buffers) + Len(rm.freed_buffers2)
           + Len(rm.freed_images) + Len(rm.freed_images2)

\* keys a caller can pass: every key the table has issued, and the null key
BufferKeys == issued.buffers \cup {NullKey}

ImageKeys == issued.images \cup {NullKey}

SamplerKeys == issued.samplers \cup {NullKey}

TransientIndices == {0}

BufferHandles == {Persistent(k) : k \in BufferKeys} \cup {Transient(i) : i \in TransientIndices}

ImageHandles == {Persistent(k) : k \in ImageKeys} \cup {Transient(i) : i \in TransientIndices}

\* DeviceSettings { frames_in_flight }
DeviceSettings == [frames_in_flight : 1..MaxFramesInFlight]

ImageSizes == {Extent2D(5, 6)}

\* (STORAGE, SAMPLED) usage of the images created
ImageUsages == {<<TRUE, FALSE>>, <<FALSE, TRUE>>}

SeqsUpTo(S, n) == UNION {[1..m -> S] : m \in 0..n}

CountTag(descs, tag) == Cardinality({i \in DOMAIN descs : descs[i].tag = tag})

\* the allocation that fails in a resolution: none (0) or one of the transients
FailPoints(descs) == {0} \cup {i \in DOMAIN descs : descs[i].tag = "Transient"}

BufferDescs ==
    {PersistentDesc(k) : k \in BufferKeys} \cup {TransientBufferDesc(st) : st \in BOOLEAN}

ImageTargets == ImageHandles \cup {Transient(i) : i \in 0..(MaxDescs - 1)}

\* scales: [0.5, 0.5] and [1.5, 0.5]
Scales == {<< <<1, 2>>, <<1, 2>> >>, << <<3, 2>>, <<1, 2>> >>}

TransientSizes ==
    {Exact(e) : e \in ImageSizes}
    \cup {Relative(scale, t) : scale \in Scales, t \in ImageTargets}

ImageDescs ==
    {PersistentDesc(k) : k \in ImageKeys}
    \cup {TransientImageDesc(size, u[1], u[2]) : size \in TransientSizes, u \in ImageUsages}
    \cup {SwapchainDesc(i) : i \in {0}}

\* the image descriptions of a graph given to get_transient_image_size: the
\* usage of a transient image has no part in its size
ChainTargets ==
    {Persistent(k) : k \in ImageKeys} \cup {Transient(i) : i \in 0..(MaxChain - 1)}

ChainSizes ==
    {Exact(e) : e \in ImageSizes}
    \cup {Relative(scale, t) : scale \in Scales, t \in ChainTargets}

ChainDescs ==
    {PersistentDesc(k) : k \in ImageKeys}
    \cup {TransientImageDesc(size, FALSE, TRUE) : size \in ChainSizes}
    \cup {SwapchainDesc(i) : i \in {0}}

\* graphs of two resources
BufferDescPairs == [1..2 -> BufferDescs]

ImageDescPairs ==
    [1..2 -> {PersistentDesc(k) : k \in ImageKeys}
             \cup {TransientImageDesc(Exact(e), u[1], u[2]) : e \in ImageSizes, u \in ImageUsages}
             \cup {SwapchainDesc(0)}]

\* the accesses passes ask for
TrackerAccesses == {"None", "StorageWrite", "StorageRead", "TransferRead"}

GraphImageAccesses == {"None", "AttachmentWrite", "SampledRead"}

\* the acquired swapchain images, by their sizes
SwapchainImages == {<<>>, <<Extent2D(1600, 900)>>}

\* vk::SwapchainKHR::null()
NullHandle == 0

Handles == 1..MaxHandles

RebuildOutcomes == {"ok", "create_failed", "images_failed"}

\* loader.destroy_swapchain: a null handle is ignored. live holds the handles
\* created and not destroyed; stale_destroys tells that a handle was destroyed
\* which was not live.
DestroySwapchain(self, handle) ==
    IF handle = NullHandle THEN self
    ELSE IF handle \in self.live THEN [self EXCEPT !.live = @ \ {handle}]
    ELSE [self EXCEPT !.stale_destroys = 1]

\* the handle is assigned, .expect panics when create_swapchain fails
CreateSwapchain(self, new_handle) ==
    [self EXCEPT !.handle = new_handle, !.live = @ \cup {new_handle},
                 !.rebuilds = Min(@ + 1, MaxRebuilds)]

\* a variant of rebuild that never destroys the old swapchain
Swapchain_rebuild_keeps_old(self, new_handle, outcome) ==
    IF outcome = "create_failed" THEN [self |-> self, out |-> "panic"]
    ELSE [self |-> CreateSwapchain(self, new_handle),
          out |-> IF outcome = "images_failed" THEN "panic" ELSE "ok"]

\* Swapchain::rebuild: create_swapchain with the old handle as old_swapchain,
\* get_swapchain_images, then destroy_swapchain(old_swapchain); each .expect
\* panics. new_handle is the handle the driver returns. rebuilds counts the
\* rebuilds of the running call.
Swapchain_rebuild(self, new_handle, outcome) ==
    IF outcome = "create_failed" THEN [self |-> self, out |-> "panic"]
    ELSE IF outcome = "images_failed"
    THEN [self |-> CreateSwapchain(self, new_handle), out |-> "panic"]
    ELSE [self |-> DestroySwapchain(CreateSwapchain(self, new_handle), self.handle),
          out |-> "ok"]

\* Swapchain::new: a null handle, then rebuild()
Swapchain_new ==
    [Swapchain_rebuild([handle |-> NullHandle, live |-> {}, stale_destroys |-> 0,
                        rebuilds |-> 0, pc |-> "idle"], 1, "ok").self
        EXCEPT !.rebuilds = 0]

\* SwapchainManager::default
SwapchainManager_default == [swapchains |-> {}, created |-> 0]

\* ------------------------------------------------------------------ Device
\* Device::new: the settings are not read; the resource manager starts empty
Device_new(settings) ==
    [persistent_resource_manager |-> NewResourceManager, transfer_list |-> <<>>,
     swapchain_manager |-> SwapchainManager_default]

\* the state an AshImage acts on: the live vk::Image handles of the device,
\* the live allocations of the allocator, the AshImages its callers hold, and
\* whether a handle or allocation was released that was not live
NoAshImages == [images |-> {}, allocations |-> {}, owned |-> {}, stale |-> 0]

Init ==
    \E settings \in DeviceSettings :
        /\ rm = Device_new(settings).persistent_resource_manager
        /\ transfer_list = Device_new(settings).transfer_list
        /\ ret = Ret("new", Null, "ok", Null, 0)
        /\ issued = [buffers |-> {}, images |-> {}, samplers |-> {}]
        /\ flushes = [buffers |-> NoFlushes, images |-> NoFlushes]
        /\ passes = <<>>
        /\ swapchain_manager = Device_new(settings).swapchain_manager
        /\ released = {}
        /\ swapchain = Swapchain_new
        /\ ash_images = NoAshImages

\* ---------------------------------------------------------------- Swapchain
\* what loader.acquire_next_image returns
AcquireOk(index, suboptimal) == [tag |-> "Ok", index |-> index, suboptimal |-> suboptimal]

AcquireResults ==
    {AcquireOk(index, suboptimal) : index \in 0..(MaxImages - 1), suboptimal \in BOOLEAN}
    \cup {Err(e) : e \in {"ERROR_OUT_OF_DATE_KHR", "ERROR_DEVICE_LOST"}}

\* a variant that takes a failed call for image 0, fit for use
UnwrapOrZero(result) ==
    IF result.tag = "Ok" THEN <<result.index, result.suboptimal>> ELSE <<0, FALSE>>

\* .unwrap_or((0, true))
UnwrapOrSuboptimal(result) ==
    IF result.tag = "Ok" THEN <<result.index, result.suboptimal>> ELSE <<0, TRUE>>

\* acquire_next_image is entered
acquire_next_image_call ==
    /\ Running
    /\ swapchain.pc = "idle"
    /\ swapchain' = [swapchain EXCEPT !.pc = "loop", !.rebuilds = 0]
    /\ ret' = Ret("acquire_next_image", Null, "call", Null, 0)
    /\ UNCHANGED <<rm, transfer_list, issued, flushes, passes, swapchain_manager, released,
                   ash_images>>

\* one turn of the loop: the index is returned unless the image is suboptimal
\* or the call failed; otherwise the swapchain is rebuilt, which may panic,
\* and the loop goes on
acquire_next_image_loop(result, new_handle, outcome) ==
    /\ Running
    /\ swapchain.pc = "loop"
    /\ IF ~UnwrapOrSuboptimal(result)[2]
       THEN /\ swapchain' = [swapchain EXCEPT !.pc = "idle"]
            /\ ret' = Ret("acquire_next_image", result, "ok", UnwrapOrSuboptimal(result)[1], 0)
       ELSE LET r == Swapchain_rebuild(swapchain, new_handle, outcome)
            IN /\ swapchain' = r.self
               /\ ret' = Ret("acquire_next_image", result,
                             IF r.out = "ok" THEN "retry" ELSE r.out, Null, 1)
    /\ UNCHANGED <<rm, transfer_list, issued, flushes, passes, swapchain_manager, released,
                   ash_images>>

\* the panic of an assertion inside a function
Panicked == [out |-> "panic", val |-> Null]

Returned(value) == [out |-> "ok", val |-> value]

\* Ord::clamp for u32: assert!(min <= max), then the nearest value in range
u32_clamp(value, min, max) ==
    IF min > max THEN Panicked
    ELSE IF value < min THEN Returned(min)
    ELSE IF value > max THEN Returned(max)
    ELSE Returned(value)

\* SwapchainSupportDetails::get_image_count
get_image_count(capabilities, desired_count) ==
    u32_clamp(desired_count, capabilities.min_image_count, capabilities.max_image_count)

\* SwapchainSupportDetails::get_size: the clamps are evaluated before the
\* extent is built
get_size(capabilities, desired_size) ==
    IF capabilities.current_extent.width # U32_MAX
    THEN Returned(capabilities.current_extent)
    ELSE LET width == u32_clamp(desired_size.width, capabilities.min_image_extent.width,
                                capabilities.max_image_extent.width)
             height == u32_clamp(desired_size.height, capabilities.min_image_extent.height,
                                 capabilities.max_image_extent.height)
         IN IF width.out = "panic" \/ height.out = "panic" THEN Panicked
            ELSE Returned(Extent2D(width.val, height.val))

SurfaceExtents == {Extent2D(w, h) : w \in {1, MaxCount}, h \in {1, MaxCount}}

ExtentWithin(extent, min, max) ==
    /\ min.width <= extent.width /\ extent.width <= max.width
    /\ min.height <= extent.height /\ extent.height <= max.height

\* vk::SurfaceCapabilitiesKHR as a driver reports it: at least one image, a
\* maximum of 0 for no limit or else one not below the minimum, the least
\* extent within the largest, and a current extent that is within them or
\* (u32::MAX, u32::MAX) when the swapchain decides the size
SurfaceCapabilities ==
    {c \in [min_image_count : 1..2, max_image_count : 0..MaxCount,
            current_extent : SurfaceExtents \cup {Extent2D(U32_MAX, U32_MAX)},
            min_image_extent : SurfaceExtents, max_image_extent : SurfaceExtents] :
        /\ c.max_image_count = 0 \/ c.min_image_count <= c.max_image_count
        /\ ExtentWithin(c.min_image_extent, c.min_image_extent, c.max_image_extent)
        /\ \/ c.current_extent = Extent2D(U32_MAX, U32_MAX)
           \/ ExtentWithin(c.current_extent, c.min_image_extent, c.max_image_extent)}

DesiredExtents == {Extent2D(w, h) : w \in {0, 2, U32_MAX}, h \in {0, 2, U32_MAX}}

GetImageCountStep ==
    /\ Running
    /\ \E capabilities \in SurfaceCapabilities, desired_count \in 0..MaxCount + 1 :
          LET v == get_image_count(capabilities, desired_count)
          IN ret' = Ret("get_image_count", <<capabilities, desired_count>>, v.out, v.val, 0)
    /\ UNCHANGED <<rm, transfer_list, issued, flushes, passes, surface_vars>>

GetSizeStep ==
    /\ Running
    /\ \E capabilities \in SurfaceCapabilities, desired_size \in DesiredExtents :
          LET v == get_size(capabilities, desired_size)
          IN ret' = Ret("get_size", <<capabilities, desired_size>>, v.out, v.val, 0)
    /\ UNCHANGED <<rm, transfer_list, issued, flushes, passes, surface_vars>>

\* ------------------------------------------------------------ texture.rs
AshImage(handle, allocation) == [handle |-> handle, allocation |-> allocation]

AshImageOutcomes == {"ok", "create_failed", "alloc_failed", "bind_failed"}

\* device.create_image
vk_create_image(self, handle) == [self EXCEPT !.images = @ \cup {handle}]

\* device.destroy_image
vk_destroy_image(self, handle) ==
    IF handle \in self.images THEN [self EXCEPT !.images = @ \ {handle}]
    ELSE [self EXCEPT !.stale = 1]

\* allocator.allocate
allocator_allocate(self, allocation) == [self EXCEPT !.allocations = @ \cup {allocation}]

\* allocator.free
allocator_free(self, allocation) ==
    IF allocation \in self.allocations THEN [self EXCEPT !.allocations = @ \ {allocation}]
    ELSE [self EXCEPT !.stale = 1]

\* a variant of AshImage::new that keeps the allocation when the bind fails
AshImage_new_keeps_allocation(self, handle, allocation, outcome) ==
    IF outcome = "create_failed" THEN [self |-> self, result |-> Err("VkError")]
    ELSE IF outcome = "alloc_failed"
    THEN [self |-> vk_destroy_image(vk_create_image(self, handle), handle),
          result |-> Err("GpuAllocError")]
    ELSE IF outcome = "bind_failed"
    THEN [self |-> vk_destroy_image(
                       allocator_allocate(vk_create_image(self, handle), allocation), handle),
          result |-> Err("VkError")]
    ELSE [self |-> [allocator_allocate(vk_create_image(self, handle), allocation)
                       EXCEPT !.owned = @ \cup {AshImage(handle, allocation)}],
          result |-> AshImage(handle, allocation)]

\* AshImage::new: create_image, allocate, bind_image_memory; handle and
\* allocation are what the device and the allocator hand out
AshImage_new(self, handle, allocation, outcome) ==
    IF outcome = "create_failed" THEN [self |-> self, result |-> Err("VkError")]
    ELSE IF outcome = "alloc_failed"
    THEN [self |-> vk_destroy_image(vk_create_image(self, handle), handle),
          result |-> Err("GpuAllocError")]
    ELSE IF outcome = "bind_failed"
    THEN [self |-> allocator_free(
                       vk_destroy_image(
                           allocator_allocate(vk_create_image(self, handle), allocation),
                           handle),
                       allocation),
          result |-> Err("VkError")]
    ELSE [self |-> [allocator_allocate(vk_create_image(self, handle), allocation)
                       EXCEPT !.owned = @ \cup {AshImage(handle, allocation)}],
          result |-> AshImage(handle, allocation)]

\* AshImage::destroy, called once by the holder of the image
AshImage_destroy(self, image) ==
    [allocator_free(vk_destroy_image(self, image.handle), image.allocation)
        EXCEPT !.owned = @ \ {image}]

AshImageNewStep ==
    /\ Running
    /\ \E handle \in (1..MaxTextures) \ ash_images.images,
          allocation \in (1..MaxTextures) \ ash_images.allocations,
          outcome \in AshImageOutcomes :
          LET r == AshImage_new(ash_images, handle, allocation, outcome)
          IN /\ ash_images' = r.self
             /\ ret' = Ret("AshImage_new", outcome,
                           IF outcome = "ok" THEN "ok" ELSE "err", r.result, 0)
    /\ UNCHANGED <<rm, transfer_list, issued, flushes, passes, swapchain_manager, released,
                   swapchain>>

AshImageDestroyStep ==
    /\ Running
    /\ \E image \in ash_images.owned :
          /\ ash_images' = AshImage_destroy(ash_images, image)
          /\ ret' = Ret("AshImage_destroy", image, "ok", Null, 0)
    /\ UNCHANGED <<rm, transfer_list, issued, flushes, passes, swapchain_manager, released,
                   swapchain>>

\* bitflags as the sets of their bit positions.
\* TextureUsage::ATTACHMENT = 1 << 0
TextureUsage_ATTACHMENT == {0}

\* TextureBindingType::SAMPLED = 1 << 0
TextureBindingType_SAMPLED == {0}

\* TextureBindingType::STORAGE = 1 << 0
TextureBindingType_STORAGE == {0}

\* bitflags contains(): every bit of other is set
contains(flags, other) == other \subseteq flags

\* the bindings a caller writes, as the names it joins with |
BindingNames == {"SAMPLED", "STORAGE"}

BindingBits(names) ==
    (IF "SAMPLED" \in names THEN TextureBindingType_SAMPLED ELSE {})
        \cup (IF "STORAGE" \in names THEN TextureBindingType_STORAGE ELSE {})

ColorFormats == {"R8G8B8A8_UNORM", "R16G16B16A16_SFLOAT"}

DepthFormats == {"D32_SFLOAT"}

TextureSizes == {<<w, h>> : w \in {1, 2, 4}, h \in {1, 2, 4}}

\* get_vk_texture_2d_create_info: vk::ImageUsageFlags is the set of the names
\* of its bits, which are all distinct; is_color_format is the constant true
get_vk_texture_2d_create_info(usage, bindings, format, size) ==
    LET is_color_format == TRUE
        vk_usage ==
            {"TRANSFER_SRC", "TRANSFER_DST"}
                \cup (IF contains(bindings, TextureBindingType_SAMPLED) THEN {"SAMPLED"} ELSE {})
                \cup (IF contains(bindings, TextureBindingType_STORAGE) THEN {"STORAGE"} ELSE {})
                \cup (IF contains(usage, TextureUsage_ATTACHMENT)
                      THEN (IF is_color_format THEN {"COLOR_ATTACHMENT"}
                            ELSE {"DEPTH_STENCIL_ATTACHMENT"})
                      ELSE {})
    IN [format |-> format, image_type |-> "TYPE_2D", usage |-> vk_usage,
        extent |-> [width |-> size[1], height |-> size[2], depth |-> 1],
        array_layers |-> 1, mip_levels |-> 1]

TextureCreateInfoStep ==
    /\ Running
    /\ \E attachment \in BOOLEAN, names \in SUBSET BindingNames,
          format \in ColorFormats \cup DepthFormats, size \in TextureSizes :
          ret' = Ret("get_vk_texture_2d_create_info",
                     [attachment |-> attachment, bindings |-> names],
                     "ok",
                     get_vk_texture_2d_create_info(
                         IF attachment THEN TextureUsage_ATTACHMENT ELSE {},
                         BindingBits(names), format, size),
                     0)
    /\ UNCHANGED <<rm, transfer_list, issued, flushes, passes, surface_vars>>

\* Drop for Swapchain
Swapchain_drop ==
    /\ Running
    /\ swapchain.pc = "idle"
    /\ swapchain' = [DestroySwapchain(swapchain, swapchain.handle) EXCEPT !.pc = "dropped"]
    /\ ret' = Ret("drop", swapchain.handle, "ok", Null, 0)
    /\ UNCHANGED <<rm, transfer_list, issued, flushes, passes, swapchain_manager, released,
                   ash_images>>

\* ----------------------------------------------------------------- surfaces
\* instance.surface_list: the surfaces of the instance, by handle
surface_list == {1, 2}

\* handles a caller may pass: those of the surfaces and one of no surface
SurfaceHandles == surface_list \cup {3}

SurfaceSettings == {"Fifo", "Immediate"}

\* SwapchainManager::get: the swapchain of the surface, if any
SwapchainManager_get(self, surface) ==
    IF \E e \in self.swapchains : e.surface = surface
    THEN [tag |-> "Some", value |-> CHOOSE e \in self.swapchains : e.surface = surface]
    ELSE Null

\* swapchains.remove(&surface)
SwapchainManager_remove(self, surface) ==
    [self EXCEPT !.swapchains = {e \in @ : e.surface # surface}]

\* the entry of a newly created swapchain joins the map
SwapchainManager_add_beside(self, surface, settings) ==
    [self EXCEPT !.swapchains = @ \cup {[surface |-> surface, handle |-> self.created + 1,
                                         settings |-> settings]},
                 !.created = @ + 1]

\* SwapchainManager::add of a Swapchain::new: the map is keyed by surface.
\* created counts the swapchains made so far and names the next one.
SwapchainManager_add(self, surface, settings) ==
    SwapchainManager_add_beside(SwapchainManager_remove(self, surface), surface, settings)

\* Swapchain::update_settings on the swapchain of the surface
SwapchainManager_update_settings(self, surface, settings) ==
    [self EXCEPT !.swapchains =
        {IF e.surface = surface THEN [e EXCEPT !.settings = settings] ELSE e : e \in @}]

\* a variant of configure_surface that never looks for an existing swapchain
configure_surface_always_new(self, surface, settings, vk_ok) ==
    IF vk_ok
    THEN [self |-> SwapchainManager_add(self, surface, settings), out |-> "ok"]
    ELSE [self |-> self, out |-> "err"]

\* the body of configure_surface once the surface is found; the Vulkan calls
\* of Swapchain::new and of update_settings may fail
configure_surface_found(self, surface, settings, vk_ok) ==
    IF ~vk_ok
    THEN [self |-> self, out |-> "err"]
    ELSE IF SwapchainManager_get(self, surface) # Null
    THEN [self |-> SwapchainManager_update_settings(self, surface, settings), out |-> "ok"]
    ELSE [self |-> SwapchainManager_add(self, surface, settings), out |-> "ok"]

configure_surface(surface_handle, settings, vk_ok) ==
    /\ Running
    /\ swapchain_manager.created < MaxSwapchains
    /\ IF surface_handle \notin surface_list
       THEN /\ ret' = Ret("configure_surface", surface_handle, "panic", Null, 0)
            /\ UNCHANGED swapchain_manager
       ELSE LET r == configure_surface_found(swapchain_manager, surface_handle, settings, vk_ok)
            IN  /\ swapchain_manager' = r.self
                /\ ret' = Ret("configure_surface", surface_handle, r.out, settings,
                              r.self.created - swapchain_manager.created)
    /\ UNCHANGED <<rm, transfer_list, issued, flushes, passes, released, swapchain, ash_images>>

release_surface(surface_handle) ==
    /\ Running
    /\ IF surface_handle \notin surface_list
       THEN /\ ret' = Ret("release_surface", surface_handle, "panic", Null, 0)
            /\ UNCHANGED <<swapchain_manager, released>>
       ELSE /\ swapchain_manager' = SwapchainManager_remove(swapchain_manager, surface_handle)
            /\ released' = released \cup {surface_handle}
            /\ ret' = Ret("release_surface", surface_handle, "ok", Null, 0)
    /\ UNCHANGED <<rm, transfer_list, issued, flushes, passes, swapchain, ash_images>>

\* Buffer::new may fail, and then nothing is added
create_buffer(storage, alloc_ok) ==
    /\ Running
    /\ SlotMapCanInsert(rm.buffers, SlotsInUse)
    /\ IF alloc_ok
       THEN /\ rm' = add_buffer(rm, NewBuffer(storage))
            /\ ret' = Ret("create_buffer", Null, "ok",
                          Persistent(SlotMapNextKey(rm.buffers)), 0)
       ELSE /\ ret' = Ret("create_buffer", Null, "err", Err("AllocationFailure"), 0)
            /\ UNCHANGED rm
    /\ issued' = NoteIssued(issued, rm, rm')
    /\ UNCHANGED <<transfer_list, flushes, passes>>
    /\ UNCHANGED surface_vars

\* the transient arm queues the index as if it were a persistent key
destroy_buffer_any_handle(buffer_handle) ==
    /\ Running
    /\ Pending < MaxPending
    /\ rm' = remove_buffer(rm, IF buffer_handle.tag = "Persistent" THEN buffer_handle.key
                               ELSE Key(buffer_handle.index + 1, 1))
    /\ ret' = Ret("destroy_buffer", buffer_handle, "ok", Null,
                  IF buffer_handle.tag = "Persistent" THEN 0 ELSE 1)
    /\ UNCHANGED <<transfer_list, issued, flushes, passes>>
    /\ UNCHANGED surface_vars

destroy_buffer(buffer_handle) ==
    /\ Running
    /\ IF buffer_handle.tag = "Persistent"
       THEN /\ Pending < MaxPending
            /\ rm' = remove_buffer(rm, buffer_handle.key)
            /\ flushes' = [flushes EXCEPT
                              !.buffers = NoteDestroy(@, rm.buffers, buffer_handle.key)]
            /\ ret' = Ret("destroy_buffer", buffer_handle, "ok", Null, 0)
       ELSE /\ ret' = Ret("destroy_buffer", buffer_handle, "ok", Null, 1)
            /\ UNCHANGED <<rm, flushes>>
    /\ UNCHANGED <<transfer_list, issued, passes>>
    /\ UNCHANGED surface_vars

\* a variant of update_data_to_buffer that adds the staging buffer to the
\* table before its memory is mapped
update_data_to_buffer_adds_first(buffer_handle, alloc_ok, map_ok) ==
    /\ Running
    /\ SlotMapCanInsert(rm.buffers, SlotsInUse)
    /\ Len(transfer_list) < MaxTransfers
    /\ Pending < MaxPending
    /\ IF ~alloc_ok
       THEN /\ ret' = Ret("update_data_to_buffer", buffer_handle, "err",
                          Err("AllocationFailure"), 0)
            /\ UNCHANGED <<rm, transfer_list, flushes>>
       ELSE IF ~map_ok
       THEN /\ rm' = add_buffer(rm, NewBuffer(FALSE))
            /\ ret' = Ret("update_data_to_buffer", buffer_handle, "err",
                          Err("ERROR_MEMORY_MAP_FAILED"), 0)
            /\ UNCHANGED <<transfer_list, flushes>>
       ELSE LET staging_handle == Persistent(SlotMapNextKey(rm.buffers))
                added == add_buffer(rm, NewBuffer(FALSE))
            IN /\ rm' = remove_buffer(added, staging_handle.key)
               /\ transfer_list' = Append(transfer_list, <<staging_handle, buffer_handle>>)
               /\ flushes' = [flushes EXCEPT
                                 !.buffers = NoteDestroy(@, added.buffers, staging_handle.key)]
               /\ ret' = Ret("update_data_to_buffer", buffer_handle, "ok", Null, 0)
    /\ issued' = NoteIssued(issued, rm, rm')
    /\ UNCHANGED passes
    /\ UNCHANGED surface_vars

\* staging buffer: usage TRANSFER_SRC, registered, queued for transfer and destroyed
update_data_to_buffer(buffer_handle, alloc_ok, map_ok) ==
    /\ Running
    /\ SlotMapCanInsert(rm.buffers, SlotsInUse)
    /\ Len(transfer_list) < MaxTransfers
    /\ Pending < MaxPending
    /\ IF ~alloc_ok
       THEN /\ ret' = Ret("update_data_to_buffer", buffer_handle, "err",
                          Err("AllocationFailure"), 0)
            /\ UNCHANGED <<rm, transfer_list, flushes>>
       ELSE IF ~map_ok
       THEN /\ ret' = Ret("update_data_to_buffer", buffer_handle, "err",
                          Err("ERROR_MEMORY_MAP_FAILED"), 0)
            /\ UNCHANGED <<rm, transfer_list, flushes>>
       ELSE LET staging_handle == Persistent(SlotMapNextKey(rm.buffers))
                added == add_buffer(rm, NewBuffer(FALSE))
            IN /\ rm' = remove_buffer(added, staging_handle.key)
               /\ transfer_list' = Append(transfer_list, <<staging_handle, buffer_handle>>)
               /\ flushes' = [flushes EXCEPT
                                 !.buffers = NoteDestroy(@, added.buffers, staging_handle.key)]
               /\ ret' = Ret("update_data_to_buffer", buffer_handle, "ok", Null, 0)
    /\ issued' = NoteIssued(issued, rm, rm')
    /\ UNCHANGED passes
    /\ UNCHANGED surface_vars

\* BufferAccess { write, stage, access }
BufferAccess(write, stage, access) == [write |-> write, stage |-> stage, access |-> access]

\* a map kept as a sequence of (handle, usage) entries with one entry per key
\* would grow by one entry per insert if the keys were not compared
UsagesPush(usages, handle, usage) == Append(usages, <<handle, usage>>)

\* HashMap::insert: replaces the value of a present key, adds an absent one
UsagesInsert(usages, handle, usage) ==
    IF \E i \in DOMAIN usages : usages[i][1] = handle
    THEN [i \in DOMAIN usages |->
             IF usages[i][1] = handle THEN <<handle, usage>> ELSE usages[i]]
    ELSE Append(usages, <<handle, usage>>)

\* the buffer_usages of the transfer pass: each staging buffer is read, each
\* target written, in the order of the transfer list
RECURSIVE TransferUsages(_, _)
TransferUsages(list, buffer_usages) ==
    IF list = <<>> THEN buffer_usages
    ELSE TransferUsages(Tail(list),
             UsagesInsert(
                 UsagesInsert(buffer_usages, Head(list)[1],
                              BufferAccess(FALSE, "TRANSFER", "TRANSFER_READ")),
                 Head(list)[2],
                 BufferAccess(TRUE, "TRANSFER", "TRANSFER_WRITE")))

\* only the upload queued first is made part of the pass
TransferPassOfFirst(list) ==
    IF list = <<>> THEN Null
    ELSE [tag |-> "Some", name |-> "Transfer Pass",
          buffer_usages |-> TransferUsages(<<Head(list)>>, <<>>),
          transfer_list |-> <<Head(list)>>]

\* (!transfer_list.is_empty()).then(..): the pass owns the transfers it was built from
TransferPass(list) ==
    IF list = <<>> THEN Null
    ELSE [tag |-> "Some", name |-> "Transfer Pass",
          buffer_usages |-> TransferUsages(list, <<>>), transfer_list |-> list]

\* the tracker access a declared usage asks for
RequestedAccess(usage) ==
    CASE usage.access = "TRANSFER_READ" -> "TransferRead"
      [] usage.access = "TRANSFER_WRITE" -> "TransferWrite"
      [] usage.access = "VERTEX_ATTRIBUTE_READ" -> "VertexRead"
      [] usage.access = "SHADER_WRITE" -> "StorageWrite"

\* a pass is executed by one read-then-overwrite of the last access per entry of
\* its buffer_usages; a transient buffer is new in its frame, a key that is not
\* in the table has no resource
RECURSIVE ExecuteBufferUsages(_, _, _, _)
ExecuteBufferUsages(self, buffer_usages, i, made) ==
    IF i > Len(buffer_usages) THEN [self |-> self, made |-> made]
    ELSE LET handle == buffer_usages[i][1]
             access == RequestedAccess(buffer_usages[i][2])
         IN IF handle.tag = "Transient"
            THEN ExecuteBufferUsages(self, buffer_usages, i + 1,
                     Append(made, Transition("submit_frame", handle, "None", access)))
            ELSE LET r == get_and_update_buffer_resource(self, handle.key, access)
                 IN ExecuteBufferUsages(r.self, buffer_usages, i + 1,
                        IF r.val = Null THEN made
                        ELSE Append(made, Transition("submit_frame", handle,
                                                     r.val.last_access, access)))

\* RenderPass { name, buffer_usages, .. } of a graph
RenderPass(name, buffer_usages) == [name |-> name, buffer_usages |-> buffer_usages]

\* RenderGraph: the buffer and image resources it declares and its passes
RenderGraph(buffers_in, images_in, pass_list) ==
    [buffers |-> buffers_in, images |-> images_in, passes |-> pass_list]

\* the passes run in the order given, each on the state the one before left
RECURSIVE ExecutePasses(_, _, _, _)
ExecutePasses(self, pass_list, i, executed) ==
    IF i > Len(pass_list) THEN [self |-> self, executed |-> executed]
    ELSE LET r == ExecuteBufferUsages(self, pass_list[i].buffer_usages, 1, <<>>)
         IN ExecutePasses(r.self, pass_list, i + 1,
                Append(executed, [name |-> pass_list[i].name, made |-> r.made]))

\* execute_graph: the resources of the graph are resolved, then the transfer
\* pass, if there is one, runs ahead of the passes of the graph. first_fails:
\* the first allocation of a transient resource fails.
execute_graph(self, transfer_pass, render_graph, swapchain_images, first_fails) ==
    LET buffer_fail == IF first_fails /\ FailPoints(render_graph.buffers) # {0}
                       THEN CHOOSE i \in FailPoints(render_graph.buffers) \ {0} :
                                \A j \in FailPoints(render_graph.buffers) \ {0} : i <= j
                       ELSE 0
        image_fail == IF first_fails /\ buffer_fail = 0
                         /\ FailPoints(render_graph.images) # {0}
                      THEN CHOOSE i \in FailPoints(render_graph.images) \ {0} :
                               \A j \in FailPoints(render_graph.images) \ {0} : i <= j
                      ELSE 0
        b == get_buffer_resources(self, render_graph.buffers, buffer_fail)
        m == get_image_resources(b.self, swapchain_images, render_graph.images, image_fail)
        pass_list == (IF transfer_pass = Null THEN <<>>
                      ELSE <<RenderPass(transfer_pass.name, transfer_pass.buffer_usages)>>)
                     \o render_graph.passes
    IN IF b.out # "ok" THEN [self |-> b.self, out |-> b.out, executed |-> <<>>]
       ELSE IF m.out # "ok" THEN [self |-> m.self, out |-> m.out, executed |-> <<>>]
       ELSE LET r == ExecutePasses(m.self, pass_list, 1, <<>>)
            IN [self |-> r.self, out |-> "ok", executed |-> r.executed]

\* the transitions of the passes that made some
RECURSIVE MadeBy(_)
MadeBy(executed) ==
    IF executed = <<>> THEN <<>>
    ELSE (IF Head(executed).made = <<>> THEN <<>> ELSE <<Head(executed).made>>)
         \o MadeBy(Tail(executed))

\* the transfer pass is built from the pending uploads, which are taken, and is
\* given to execute_graph beside the graph
submit_frame(render_graph, swapchain_images, first_fails) ==
    /\ Running
    /\ Len(passes) + Len(render_graph.passes) < MaxPasses
    /\ Len(rm.transient_buffers) + CountTag(render_graph.buffers, "Transient") <= MaxTransient
    /\ Len(rm.transient_images) + CountTag(render_graph.images, "Transient") <= MaxTransient
    /\ LET transfer_pass == TransferPass(transfer_list)
           r == execute_graph(rm, transfer_pass, render_graph, swapchain_images, first_fails)
       IN /\ rm' = r.self
          /\ passes' = passes \o MadeBy(r.executed)
          /\ ret' = Ret("submit_frame",
                        [transfer_list |-> transfer_list, render_graph |-> render_graph],
                        r.out,
                        [transfer_pass |-> transfer_pass, executed |-> r.executed], 0)
    /\ transfer_list' = <<>>
    /\ UNCHANGED <<issued, flushes>>
    /\ UNCHANGED surface_vars

\* create_buffer, then update_data_to_buffer on the new buffer: the error of
\* either leaves through `?`
create_buffer_init(storage, alloc_ok, staging_alloc_ok, map_ok) ==
    LET buffer == Persistent(SlotMapNextKey(rm.buffers))
        created == add_buffer(rm, NewBuffer(storage))
        staging_handle == Persistent(SlotMapNextKey(created.buffers))
        added == add_buffer(created, NewBuffer(FALSE))
    IN /\ Running
       /\ SlotMapCanInsert(rm.buffers, SlotsInUse)
       /\ SlotMapCanInsert(created.buffers,
                           SlotsInUse + Len(created.buffers.slots) - Len(rm.buffers.slots))
       /\ Len(transfer_list) < MaxTransfers
       /\ Pending < MaxPending
       /\ IF ~alloc_ok
          THEN /\ ret' = Ret("create_buffer_init", Null, "err", Err("AllocationFailure"), 0)
               /\ UNCHANGED <<rm, transfer_list, flushes>>
          ELSE IF ~staging_alloc_ok \/ ~map_ok
          THEN /\ rm' = created
               /\ ret' = Ret("create_buffer_init", Null, "err",
                             IF ~staging_alloc_ok THEN Err("AllocationFailure")
                             ELSE Err("ERROR_MEMORY_MAP_FAILED"), 0)
               /\ UNCHANGED <<transfer_list, flushes>>
          ELSE /\ rm' = remove_buffer(added, staging_handle.key)
               /\ transfer_list' = Append(transfer_list, <<staging_handle, buffer>>)
               /\ flushes' = [flushes EXCEPT
                                 !.buffers = NoteDestroy(@, added.buffers, staging_handle.key)]
               /\ ret' = Ret("create_buffer_init", Null, "ok", buffer, 0)
       /\ issued' = NoteIssued(issued, rm, rm')
       /\ UNCHANGED passes
       /\ UNCHANGED surface_vars

\* Image::new_2d may fail, and then nothing is added
create_image(size, storage, sampled, alloc_ok) ==
    /\ Running
    /\ SlotMapCanInsert(rm.images, SlotsInUse)
    /\ IF alloc_ok
       THEN /\ rm' = add_image(rm, NewImage(size, storage, sampled))
            /\ ret' = Ret("create_image", Null, "ok",
                          Persistent(SlotMapNextKey(rm.images)), 0)
       ELSE /\ ret' = Ret("create_image", Null, "err", Err("AllocationFailure"), 0)
            /\ UNCHANGED rm
    /\ issued' = NoteIssued(issued, rm, rm')
    /\ UNCHANGED <<transfer_list, flushes, passes>>
    /\ UNCHANGED surface_vars

\* todo!()
destroy_image(image_handle) ==
    /\ Running
    /\ ret' = Ret("destroy_image", image_handle, "panic", Null, 0)
    /\ UNCHANGED <<rm, transfer_list, issued, flushes, passes>>
    /\ UNCHANGED surface_vars

\* ------------------------------------- calls made on the ResourceManager
FlushFrame ==
    /\ Running
    /\ rm' = flush_frame(rm)
    /\ ret' = Ret("flush_frame", Null, "ok",
                  [drained |-> Len(rm.freed_buffers2) + Len(rm.freed_images2),
                   cleared |-> Len(rm.transient_buffers) + Len(rm.transient_images)],
                  InvalidOnDeletion(rm.buffers, rm.freed_buffers2)
                  + InvalidOnDeletion(rm.images, rm.freed_images2))
    /\ flushes' = [buffers |-> NoteFlush(flushes.buffers, rm.buffers),
                   images |-> NoteFlush(flushes.images, rm.images)]
    /\ UNCHANGED <<transfer_list, issued, passes>>
    /\ UNCHANGED surface_vars

RemoveImage(key) ==
    /\ Running
    /\ Pending < MaxPending
    /\ rm' = remove_image(rm, key)
    /\ flushes' = [flushes EXCEPT !.images = NoteDestroy(@, rm.images, key)]
    /\ ret' = Ret("remove_image", key, "ok", Null, 0)
    /\ UNCHANGED <<transfer_list, issued, passes>>
    /\ UNCHANGED surface_vars

AddSampler ==
    /\ Running
    /\ SlotMapCanInsert(rm.samplers, SlotsInUse)
    /\ rm' = add_sampler(rm, [binding |-> "None"])
    /\ ret' = Ret("add_sampler", Null, "ok", SlotMapNextKey(rm.samplers), 0)
    /\ issued' = NoteIssued(issued, rm, rm')
    /\ UNCHANGED <<transfer_list, flushes, passes>>
    /\ UNCHANGED surface_vars

\* warn!("Tried to remove invalid SamplerKey") when the key is not in the table
RemoveSampler(key) ==
    /\ Running
    /\ rm' = remove_sampler(rm, key)
    /\ ret' = Ret("remove_sampler", key, "ok", Null,
                  IF SlotMapContains(rm.samplers, key) THEN 0 ELSE 1)
    /\ UNCHANGED <<transfer_list, issued, flushes, passes>>
    /\ UNCHANGED surface_vars

\* a pass that touches one buffer
GetAndUpdateBufferResource(key, new_last_access) ==
    /\ Running
    /\ Len(passes) < MaxPasses
    /\ LET r == get_and_update_buffer_resource(rm, key, new_last_access)
       IN /\ rm' = r.self
          /\ ret' = Ret("get_and_update_buffer_resource",
                        [key |-> key, new_last_access |-> new_last_access], "ok", r.val, 0)
          /\ passes' = IF r.val = Null THEN passes
                        ELSE Append(passes, <<Transition("get_and_update_buffer_resource", key,
                                                         r.val.last_access, new_last_access)>>)
    /\ UNCHANGED <<transfer_list, issued, flushes>>
    /\ UNCHANGED surface_vars

\* the log of a resolution holds the position of the description whose
\* allocation was made to fail, 0 for none
GetBufferResources(buffers_in, fail_at) ==
    /\ Running
    /\ Len(rm.transient_buffers) + CountTag(buffers_in, "Transient") <= MaxTransient
    /\ SlotsInUse + CountTag(buffers_in, "Transient") <= MaxSlots
    /\ LET r == get_buffer_resources(rm, buffers_in, fail_at)
       IN /\ rm' = r.self
          /\ ret' = Ret("get_buffer_resources", buffers_in, r.out, r.val, fail_at)
    /\ UNCHANGED <<transfer_list, issued, flushes, passes>>
    /\ UNCHANGED surface_vars

GetImageResources(swapchain_images, images_in, fail_at) ==
    /\ Running
    /\ Len(rm.transient_images) + CountTag(images_in, "Transient") <= MaxTransient
    /\ SlotsInUse + CountTag(images_in, "Transient") <= MaxSlots
    /\ LET r == get_image_resources(rm, swapchain_images, images_in, fail_at)
       IN /\ rm' = r.self
          /\ ret' = Ret("get_image_resources", images_in, r.out, r.val, fail_at)
    /\ UNCHANGED <<transfer_list, issued, flushes, passes>>
    /\ UNCHANGED surface_vars

\* the executor resolves the buffers of a graph whose passes use each of them
\* with `access`
ResolveGraphBuffers(buffers_in, fail_at, access) ==
    /\ Running
    /\ Len(passes) < MaxPasses
    /\ Len(rm.transient_buffers) + CountTag(buffers_in, "Transient") <= MaxTransient
    /\ SlotsInUse + CountTag(buffers_in, "Transient") <= MaxSlots
    /\ LET r == get_buffer_resources(rm, buffers_in, fail_at)
           made == IF r.out = "ok"
                   THEN NoteResolved("get_buffer_resources", buffers_in, r.val, access, 1)
                   ELSE <<>>
       IN /\ rm' = r.self
          /\ ret' = Ret("get_buffer_resources", buffers_in, r.out, r.val, 0)
          /\ passes' = IF made = <<>> THEN passes ELSE Append(passes, made)
    /\ UNCHANGED <<transfer_list, issued, flushes>>
    /\ UNCHANGED surface_vars

\* the executor resolves the images of a graph whose passes use each of them
\* with `access`
ResolveGraphImages(swapchain_images, images_in, fail_at, access) ==
    /\ Running
    /\ Len(passes) < MaxPasses
    /\ Len(rm.transient_images) + CountTag(images_in, "Transient") <= MaxTransient
    /\ SlotsInUse + CountTag(images_in, "Transient") <= MaxSlots
    /\ LET r == get_image_resources(rm, swapchain_images, images_in, fail_at)
           made == IF r.out = "ok"
                   THEN NoteResolved("get_image_resources", images_in, r.val, access, 1)
                   ELSE <<>>
       IN /\ rm' = r.self
          /\ ret' = Ret("get_image_resources", images_in, r.out, r.val, 0)
          /\ passes' = IF made = <<>> THEN passes ELSE Append(passes, made)
    /\ UNCHANGED <<transfer_list, issued, flushes>>
    /\ UNCHANGED surface_vars

\* --------------------------------------------------------- specifications
BufferStep ==
    \/ \E storage, alloc_ok \in BOOLEAN : create_buffer(storage, alloc_ok)
    \/ \E h \in BufferHandles : destroy_buffer(h)
    \/ FlushFrame

UploadStep ==
    \E h \in BufferHandles, alloc_ok, map_ok \in BOOLEAN :
        update_data_to_buffer(h, alloc_ok, map_ok)

BufferGraphStep ==
    \E buffers_in \in SeqsUpTo(BufferDescs, MaxDescs) :
        \E fail_at \in FailPoints(buffers_in) : GetBufferResources(buffers_in, fail_at)

CreateBufferStep ==
    \E storage, alloc_ok \in BOOLEAN : create_buffer(storage, alloc_ok)

AccessStep ==
    \E k \in BufferKeys, a \in TrackerAccesses : GetAndUpdateBufferResource(k, a)

\* the graphs submitted: no pass; the raster pass of render_graph_test on a
\* transient storage buffer, the swapchain image and a transient depth image of
\* its size; a compute pass writing a persistent buffer
EmptyRenderGraph == RenderGraph(<<>>, <<>>, <<>>)

RenderGraphTest ==
    RenderGraph(<<TransientBufferDesc(TRUE)>>,
                <<SwapchainDesc(0),
                  TransientImageDesc(Exact(Extent2D(1600, 900)), FALSE, FALSE)>>,
                <<RenderPass("Test",
                     <<<<Transient(0),
                         BufferAccess(FALSE, "VERTEX_INPUT", "VERTEX_ATTRIBUTE_READ")>>>>)>>)

PersistentGraph(k) ==
    RenderGraph(<<PersistentDesc(k)>>, <<>>,
                <<RenderPass("Compute",
                     <<<<Persistent(k),
                         BufferAccess(TRUE, "COMPUTE_SHADER", "SHADER_WRITE")>>>>)>>)

RenderGraphs ==
    {EmptyRenderGraph, RenderGraphTest} \cup {PersistentGraph(k) : k \in BufferKeys}

\* the buffers a caller uploads to: those it holds a handle of and has not
\* destroyed, and the transient buffers of a graph
UploadTargets ==
    {Persistent(k) : k \in {k \in SlotMapKeys(rm.buffers) :
                               /\ \A i \in DOMAIN rm.freed_buffers : rm.freed_buffers[i] # k
                               /\ \A i \in DOMAIN rm.freed_buffers2 : rm.freed_buffers2[i] # k}}
    \cup {Transient(i) : i \in TransientIndices}

\* a frame of the pending uploads and no pass of its own
SubmitUploadsStep ==
    submit_frame(EmptyRenderGraph, <<Extent2D(1600, 900)>>, FALSE)

CreateBufferInitStep ==
    \E storage, alloc_ok, staging_alloc_ok, map_ok \in BOOLEAN :
        create_buffer_init(storage, alloc_ok, staging_alloc_ok, map_ok)

ResolvePairStep ==
    \/ \E buffers_in \in BufferDescPairs :
          \E fail_at \in FailPoints(buffers_in) : GetBufferResources(buffers_in, fail_at)
    \/ \E images_in \in ImageDescPairs :
          \E fail_at \in FailPoints(images_in) :
              GetImageResources(<<Extent2D(1600, 900)>>, images_in, fail_at)

DestroyBufferStep ==
    \E h \in BufferHandles : destroy_buffer(h)

UploadToBufferStep ==
    \E h \in UploadTargets, alloc_ok, map_ok \in BOOLEAN :
        update_data_to_buffer(h, alloc_ok, map_ok)

SurfaceStep ==
    \/ \E surface_handle \in SurfaceHandles, settings \in SurfaceSettings, vk_ok \in BOOLEAN :
          configure_surface(surface_handle, settings, vk_ok)
    \/ \E surface_handle \in SurfaceHandles : release_surface(surface_handle)

AcquireStep ==
    \/ acquire_next_image_call
    \/ \E result \in AcquireResults, new_handle \in Handles \ swapchain.live,
          outcome \in RebuildOutcomes :
          acquire_next_image_loop(result, new_handle, outcome)

SubmitFrameStep ==
    \E render_graph \in RenderGraphs, first_fails \in BOOLEAN :
        submit_frame(render_graph, <<Extent2D(1600, 900)>>, first_fails)

\* get_image_resources asks for the size of the transient image images[index]
GetTransientImageSize(images_in, index, swapchain_images) ==
    /\ Running
    /\ index + 1 \in DOMAIN images_in
    /\ images_in[index + 1].tag = "Transient"
    /\ LET r == get_transient_image_size(images_in[index + 1].size, rm, images_in,
                                         swapchain_images, 1)
       IN ret' = Ret("get_transient_image_size",
                     [size |-> images_in[index + 1].size, images |-> images_in,
                      swapchain_images |-> swapchain_images],
                     r.out, r.extent, 0)
    /\ UNCHANGED <<rm, transfer_list, issued, flushes, passes>>
    /\ UNCHANGED surface_vars

TransientSizeStep ==
    \E images_in \in SeqsUpTo(ChainDescs, MaxChain), swapchain_images \in SwapchainImages :
        \E index \in 0..(MaxChain - 1) :
            GetTransientImageSize(images_in, index, swapchain_images)

\* access.get_barrier_flags() on a buffer access
BufferBarrierFlagsCall(access) ==
    /\ Running
    /\ ret' = Ret("BufferResourceAccess::get_barrier_flags", access, "ok",
                  BufferResourceAccess_get_barrier_flags(access), 0)
    /\ UNCHANGED <<rm, transfer_list, issued, flushes, passes>>
    /\ UNCHANGED surface_vars

\* access.get_barrier_flags(is_color_image) on an image access
ImageBarrierFlagsCall(access, is_color_image) ==
    /\ Running
    /\ ret' = Ret("ImageResourceAccess::get_barrier_flags",
                  [access |-> access, is_color_image |-> is_color_image], "ok",
                  ImageResourceAccess_get_barrier_flags(access, is_color_image), 0)
    /\ UNCHANGED <<rm, transfer_list, issued, flushes, passes>>
    /\ UNCHANGED surface_vars

BarrierFlagsStep ==
    \/ \E access \in BufferAccesses : BufferBarrierFlagsCall(access)
    \/ \E access \in ImageAccesses, is_color_image \in BOOLEAN :
          ImageBarrierFlagsCall(access, is_color_image)

CreateImageStep ==
    \E size \in ImageSizes, usage \in ImageUsages, alloc_ok \in BOOLEAN :
        create_image(size, usage[1], usage[2], alloc_ok)

BufferGraphPassStep ==
    \E buffers_in \in SeqsUpTo(BufferDescs, MaxDescs), a \in TrackerAccesses :
        \E fail_at \in FailPoints(buffers_in) : ResolveGraphBuffers(buffers_in, fail_at, a)

ImageGraphPassStep ==
    \E swapchain_images \in SwapchainImages, images_in \in SeqsUpTo(ImageDescs, MaxDescs),
       a \in GraphImageAccesses :
        \E fail_at \in FailPoints(images_in) :
            ResolveGraphImages(swapchain_images, images_in, fail_at, a)

ImageGraphStep ==
    \E swapchain_images \in SwapchainImages, images_in \in SeqsUpTo(ImageDescs, MaxDescs) :
        \E fail_at \in FailPoints(images_in) :
            GetImageResources(swapchain_images, images_in, fail_at)

ImageStep ==
    \/ \E size \in ImageSizes, usage \in ImageUsages, alloc_ok \in BOOLEAN :
           create_image(size, usage[1], usage[2], alloc_ok)
    \/ \E h \in ImageHandles : destroy_image(h)
    \/ \E k \in ImageKeys : RemoveImage(k)
    \/ FlushFrame

SamplerStep ==
    \/ AddSampler
    \/ \E k \in SamplerKeys : RemoveSampler(k)
    \/ FlushFrame

Next ==
    \/ BufferStep \/ UploadStep \/ BufferGraphStep
    \/ ImageStep \/ ImageGraphStep
    \/ SamplerStep
    \/ AccessStep
    \/ BufferGraphPassStep \/ ImageGraphPassStep
    \/ SubmitFrameStep
    \/ UploadToBufferStep
    \/ AcquireStep
    \/ Swapchain_drop \/ GetImageCountStep \/ GetSizeStep
    \/ TextureCreateInfoStep \/ AshImageNewStep \/ AshImageDestroyStep
    \/ CreateBufferInitStep
    \/ ResolvePairStep
    \/ SurfaceStep
    \/ BarrierFlagsStep
    \/ TransientSizeStep

Spec == Init /\ [][Next]_vars

\* create, destroy and flush_frame on the buffer and image tables
SpecRing == Init /\ [][BufferStep \/ ImageStep]_vars

\* flush_frame keeps being called
SpecRingFair == SpecRing /\ WF_vars(FlushFrame)

\* create, destroy and flush_frame on the three tables
SpecTables == Init /\ [][BufferStep \/ ImageStep \/ SamplerStep]_vars

SpecSamplers == Init /\ [][SamplerStep]_vars

\* the graph functions on top of create, destroy and flush_frame
SpecGraph == Init /\ [][BufferStep \/ BufferGraphStep \/ ImageStep \/ ImageGraphStep]_vars

SpecBuffers == Init /\ [][BufferStep \/ UploadStep \/ BufferGraphStep]_vars

\* graphs resolved frame after frame over the buffers created so far
SpecBufferGraphs == Init /\ [][CreateBufferStep \/ BufferGraphPassStep]_vars

\* graphs resolved frame after frame over the images created so far
SpecImageGraphs == Init /\ [][CreateImageStep \/ ImageGraphPassStep]_vars

\* passes touching the buffers created so far
SpecTracker == Init /\ [][CreateBufferStep \/ AccessStep]_vars

\* uploads queued and submitted, between passes of the graph
SpecUploads == Init /\ [][CreateBufferStep \/ UploadStep \/ SubmitFrameStep \/ AccessStep]_vars

\* the barrier flags looked up between uploads and submitted frames
SpecBarrierFlags ==
    Init /\ [][CreateBufferStep \/ UploadStep \/ SubmitFrameStep \/ BarrierFlagsStep]_vars

\* graphs resolved between passes touching the buffers created so far
SpecTransients ==
    Init /\ [][CreateBufferStep \/ AccessStep \/ BufferGraphStep
                 \/ CreateImageStep \/ ImageGraphStep]_vars

\* the sizes of the transient images of graphs over the images created so far
SpecSizes == Init /\ [][CreateImageStep \/ TransientSizeStep]_vars

\* frames submitted with the uploads queued for the buffers created so far
\* the calls on one swapchain
SpecAcquire == Init /\ [][AcquireStep]_vars

\* a call that has begun takes its next turn
SpecAcquireFair == SpecAcquire /\ WF_vars(AcquireStep)

\* the life of one swapchain, to its drop
SpecSwapchainLife == Init /\ [][AcquireStep \/ Swapchain_drop]_vars

\* the queries of a surface's capabilities
SpecCapabilities == Init /\ [][GetImageCountStep \/ GetSizeStep]_vars

\* the create infos of 2d textures
SpecTextureInfo == Init /\ [][TextureCreateInfoStep]_vars

\* the AshImages made and destroyed
SpecAshImages == Init /\ [][AshImageNewStep \/ AshImageDestroyStep]_vars

\* the surfaces of a device
SpecSurfaces == Init /\ [][SurfaceStep]_vars

\* creations and uploads, failing and succeeding, between destructions and
\* the ends of frames
SpecCreate == Init /\ [][BufferStep \/ CreateImageStep \/ UploadToBufferStep]_vars

\* uploads and frames between destructions and ends of frames
SpecStaging ==
    Init /\ [][DestroyBufferStep \/ FlushFrame \/ UploadToBufferStep \/ SubmitUploadsStep]_vars

\* buffers created with their contents, between destructions and ends of frames
SpecBufferInit == Init /\ [][CreateBufferInitStep \/ DestroyBufferStep \/ FlushFrame]_vars

\* graphs of two resources resolved between creations and ends of frames
SpecResolve ==
    Init /\ [][CreateBufferStep \/ CreateImageStep \/ ResolvePairStep \/ FlushFrame]_vars

SpecFrames == Init /\ [][CreateBufferStep \/ UploadToBufferStep \/ SubmitFrameStep]_vars

\* ------------------------------------------------------------------ claims
Kinds == {"buffers", "images"}

Live(kind, k) == SlotMapContains(rm[kind], k)

Freed(kind) == IF kind = "buffers" THEN rm.freed_buffers ELSE rm.freed_images

Freed2(kind) == IF kind = "buffers" THEN rm.freed_buffers2 ELSE rm.freed_images2

NoPendingDeletions ==
    /\ rm.freed_buffers = <<>> /\ rm.freed_buffers2 = <<>>
    /\ rm.freed_images = <<>> /\ rm.freed_images2 = <<>>

\* the keys a step puts into a table
Added(kind) == SlotMapKeys(rm'[kind]) \ SlotMapKeys(rm[kind])

\* C1: whatever frames_in_flight the device was created with, a buffer or image
\* that was destroyed and is no longer in its table has seen at least
\* frames_in_flight calls of flush_frame since its destroy.
C1_RemovedAfterFramesInFlight ==
    \A settings \in DeviceSettings, kind \in Kinds, k \in KeySpace :
        (flushes[kind][k] >= 0 /\ ~Live(kind, k))
            => flushes[kind][k] >= settings.frames_in_flight

\* C2: a destroyed key stays in its table through the destroy call (first stage
\* of the queue) and through the first flush_frame (second stage), the second
\* flush_frame removes it, and with flush_frame called again and again every
\* destroyed key leaves its table.
C2_RemovedBySecondFlush ==
    /\ [](\A kind \in Kinds, k \in KeySpace :
            /\ flushes[kind][k] = 0 => Live(kind, k) /\ k \in Range(Freed(kind))
            /\ flushes[kind][k] = 1 => Live(kind, k) /\ k \in Range(Freed2(kind))
            /\ flushes[kind][k] >= 2 => ~Live(kind, k) /\ flushes[kind][k] = 2)
    /\ [][ret'.op \in {"destroy_buffer", "remove_image"}
            => rm'.buffers = rm.buffers /\ rm'.images = rm.images]_vars
    /\ \A kind \in Kinds, k \in KeySpace :
            (flushes[kind][k] >= 0) ~> (~Live(kind, k) \/ ~Running)

\* the second flush_frame after a destroy has just removed the key
C2_Witness ==
    /\ ret.op = "flush_frame"
    /\ ret.val.drained >= 1
    /\ \E kind \in Kinds, k \in KeySpace :
            /\ flushes[kind][k] = 2
            /\ ~Live(kind, k)
            /\ kind = "buffers" => get_buffer(rm, k) = Null
            /\ kind = "images" => get_image(rm, k) = Null

\* C3: while a destroyed key has seen fewer than two flush_frame calls, no step
\* puts a key of its slot into the table, and a create returns another slot.
C3_PendingSlotNotReissued ==
    [][\A kind \in Kinds, k \in KeySpace :
          flushes[kind][k] \in {0, 1} =>
              /\ \A n \in Added(kind) : n.idx # k.idx
              /\ (kind = "buffers" /\ ret'.op = "create_buffer" /\ ret'.out = "ok")
                    => ret'.val.key.idx # k.idx
              /\ (kind = "images" /\ ret'.op = "create_image" /\ ret'.out = "ok")
                    => ret'.val.key.idx # k.idx]_vars

\* a create has succeeded while a destroyed key was still waiting
C3_Witness ==
    /\ ret.op \in {"create_buffer", "create_image"}
    /\ ret.out = "ok"
    /\ \E kind \in Kinds, k \in KeySpace :
            /\ flushes[kind][k] \in {0, 1}
            /\ Live(kind, k)
            /\ Live(kind, ret.val.key)
            /\ ret.val.key # k

\* C4: a key put into a table differs in version from every key handed out for
\* its slot before, the create returns that key, and after the step none of
\* the older keys of the slot resolves.
C4_ReusedSlotNewGeneration ==
    [][\A kind \in Kinds : \A n \in Added(kind) :
          /\ \A k \in issued[kind] :
                k.idx = n.idx =>
                    /\ k.version # n.version
                    /\ ~SlotMapContains(rm'[kind], k)
                    /\ kind = "buffers" => get_buffer(rm', k) = Null
                    /\ kind = "images" => get_image(rm', k) = Null
          /\ ret'.val = Persistent(n)]_vars

\* a create has reused a slot and the key handed out for it before is dead
C4_Witness ==
    /\ ret.op \in {"create_buffer", "create_image"}
    /\ ret.out = "ok"
    /\ ret.val.key.version > 1
    /\ \E kind \in Kinds :
            /\ Live(kind, ret.val.key)
            /\ Key(ret.val.key.idx, 1) \in issued[kind]
            /\ ~Live(kind, Key(ret.val.key.idx, 1))

MissingPersistent(table, descs) ==
    \E i \in DOMAIN descs :
        descs[i].tag = "Persistent" /\ ~SlotMapContains(table, descs[i].key)

MissingRelativeTarget(table, descs) ==
    \E i \in DOMAIN descs :
        /\ descs[i].tag = "Transient"
        /\ descs[i].size.tag = "Relative"
        /\ descs[i].size.target.tag = "Persistent"
        /\ ~SlotMapContains(table, descs[i].size.target.key)

\* C5: a resolution of a list that names a persistent key missing from the
\* table, as a description or as the target of a relative size, returns
\* Err(InvalidHandle).
C5_MissingKeyIsInvalidHandle ==
    /\ (ret.op = "get_buffer_resources" /\ MissingPersistent(rm.buffers, ret.arg))
            => (ret.out = "err" /\ ret.val.error = "InvalidHandle")
    /\ (ret.op = "get_image_resources"
          /\ (MissingPersistent(rm.images, ret.arg) \/ MissingRelativeTarget(rm.images, ret.arg)))
            => (ret.out = "err" /\ ret.val.error = "InvalidHandle")

\* what flush_frame does to a table when every key of the drained queue that
\* is in the table is removed once, and nothing else is touched
DrainedOnce(kind) ==
    LET before == rm[kind]
        after == rm'[kind]
        gone == SlotMapKeys(before) \cap Range(Freed2(kind))
    IN /\ SlotMapKeys(after) = SlotMapKeys(before) \ gone
       /\ DOMAIN after.slots = DOMAIN before.slots
       /\ \A i \in DOMAIN before.slots :
             after.slots[i] = IF Key(i, before.slots[i].version) \in gone
                              THEN [version |-> before.slots[i].version + 1, value |-> Null]
                              ELSE before.slots[i]
       /\ Range(after.free) = Range(before.free) \cup {k.idx : k \in gone}
       /\ Len(after.free) = Cardinality(Range(after.free))

\* C6: a destroy call changes no table, and flush_frame removes each key of the
\* drained queue that is in the table once, however often the key is queued and
\* whatever else the queue holds: every other slot, its version and its value
\* stay, and no slot is put on the free list twice.
C6_DestroyIdempotent ==
    [][/\ ret'.op \in {"destroy_buffer", "remove_image"}
            => rm'.buffers = rm.buffers /\ rm'.images = rm.images
       /\ ret'.op = "flush_frame" => DrainedOnce("buffers") /\ DrainedOnce("images")]_vars

\* flush_frame has drained a key that was no longer in the table while its
\* slot held a newer resource, which is still there
C6_Witness ==
    /\ ret.op = "flush_frame"
    /\ ret.log >= 1
    /\ \E kind \in Kinds, k \in KeySpace :
            /\ flushes[kind][k] = 2
            /\ Live(kind, Key(k.idx, k.version + 2))

\* C7: destroy_buffer with a transient handle leaves the resource manager (the
\* tables, the four queues, the transient lists) and the transfer list as they
\* were and logs one error.
C7_TransientDestroyNoOp ==
    [][(ret'.op = "destroy_buffer" /\ ret'.arg.tag = "Transient")
          => (rm' = rm /\ transfer_list' = transfer_list /\ ret'.log = 1)]_vars

\* a transient handle was destroyed with every collection non-empty
C7_Witness ==
    /\ ret.op = "destroy_buffer"
    /\ ret.arg.tag = "Transient"
    /\ SlotMapKeys(rm.buffers) # {}
    /\ rm.freed_buffers # <<>>
    /\ rm.transient_buffers # <<>>
    /\ transfer_list # <<>>

\* C8: after remove_sampler on a sampler of the table, get_sampler still
\* returns the sampler.
C8_SamplerRemovalDeferred ==
    (ret.op = "remove_sampler" /\ ret.log = 0) => get_sampler(rm, ret.arg) # Null

\* C9: destroy_image on the handle of an image of the table returns and leaves
\* the key in the image deletion queue.
C9_DestroyImageEnqueues ==
    (ret.op = "destroy_image" /\ ret.arg.tag = "Persistent" /\ Live("images", ret.arg.key))
        => (ret.out = "ok" /\ ret.arg.key \in Range(rm.freed_images))

\* C10: flush_frame called with nothing in the deletion queues leaves the three
\* tables, bindings included, as they were, and leaves the queues empty, so
\* that the same holds for the next call.
C10_FlushIdempotentWhenIdle ==
    [][(ret'.op = "flush_frame" /\ NoPendingDeletions)
          => /\ rm'.buffers = rm.buffers
             /\ rm'.images = rm.images
             /\ rm'.samplers = rm.samplers
             /\ NoPendingDeletions'
             /\ flush_frame(rm') = rm']_vars

\* flush_frame has run with empty queues on tables that hold bound resources
C10_Witness ==
    /\ ret.op = "flush_frame"
    /\ ret.val.drained = 0
    /\ NoPendingDeletions
    /\ \/ \E k \in SlotMapKeys(rm.buffers) : get_buffer(rm, k).storage_binding = "Some"
       \/ \E k \in SlotMapKeys(rm.images) : get_image(rm, k).sampled_binding = "Some"
    /\ \E k \in SlotMapKeys(rm.samplers) : get_sampler(rm, k).binding = "Some"

\* the transitions of the history in the order they were made
RECURSIVE Flatten(_)
Flatten(ps) == IF ps = <<>> THEN <<>> ELSE Head(ps) \o Flatten(Tail(ps))

Transitions == Flatten(passes)

\* the transitions made through one function
Made(via) == SelectSeq(Transitions, LAMBDA t : t.via = via)

\* the access asked for by the latest transition of the key before the n-th
RECURSIVE AccessBefore(_, _, _)
AccessBefore(ts, n, key) ==
    IF n <= 1 THEN "None"
    ELSE IF ts[n - 1].key = key THEN ts[n - 1].access
    ELSE AccessBefore(ts, n - 1, key)

\* C11: every get_and_update_buffer_resource call on a buffer of the table
\* returned the access the previous call on that buffer had asked for (None for
\* the first), and the table holds for every buffer the access its latest call
\* asked for.
C11_ReadThenOverwrite ==
    LET ts == Made("get_and_update_buffer_resource")
    IN /\ \A n \in DOMAIN ts : ts[n].last_access = AccessBefore(ts, n, ts[n].key)
       /\ \A k \in SlotMapKeys(rm.buffers) :
             SlotMapGet(rm.buffers, k).last_access = AccessBefore(ts, Len(ts) + 1, k)
       /\ (ret.op = "get_and_update_buffer_resource" /\ ret.val # Null)
             => /\ SlotMapGet(rm.buffers, ret.arg.key).last_access = ret.arg.new_last_access
                /\ ret.val.buffer = get_buffer(rm, ret.arg.key)

\* two buffers were touched in turn and the first one again, with other accesses
C11_Witness ==
    /\ ret.op = "get_and_update_buffer_resource"
    /\ ret.val # Null
    /\ Len(Transitions) >= 3
    /\ ret.val.last_access # "None"
    /\ ret.val.last_access # ret.arg.new_last_access
    /\ Transitions[Len(Transitions) - 1].key # ret.arg.key
    /\ Transitions[Len(Transitions) - 1].access # ret.val.last_access

\* C12: every resolution of a Persistent buffer description by
\* get_buffer_resources returned the access that the previous resolution of
\* that buffer left (None for the first).
C12_ResolutionUpdatesLastAccess ==
    LET ts == Made("get_buffer_resources")
    IN \A n \in DOMAIN ts : ts[n].last_access = AccessBefore(ts, n, ts[n].key)

\* C13: every resolution of a Persistent image description by
\* get_image_resources returned as last usage the access that the previous
\* graph touching that image used it with (None for the first).
C13_ImageLastUsageObserved ==
    LET ts == Made("get_image_resources")
    IN \A n \in DOMAIN ts : ts[n].last_access = AccessBefore(ts, n, ts[n].key)

\* the tracker transitions of one buffer, and the accesses fed to it
TrackedBy(key) ==
    SelectSeq(Made("get_and_update_buffer_resource"), LAMBDA t : t.key = key)

RECURSIVE Fed(_)
Fed(ts) == IF ts = <<>> THEN <<>> ELSE <<Head(ts).access>> \o Fed(Tail(ts))

BarrierSequenceFed(key) ==
    Fed(TrackedBy(key)) = <<"None", "StorageWrite", "StorageRead", "TransferRead">>

TransferHandles(list) ==
    {list[i][1] : i \in DOMAIN list} \cup {list[i][2] : i \in DOMAIN list}

\* a handle that has a resource behind it
Resolvable(handle) ==
    handle.tag = "Transient" \/ SlotMapContains(rm.buffers, handle.key)

\* C15: a pass makes one transition, and so one barrier, per resource it
\* touches, however many transfers of the pass use the resource; a transition
\* from None to None emits no barrier and still stores the requested access.
C15_OneBarrierPerResourcePerPass ==
    /\ \A p \in DOMAIN passes : \A i, j \in DOMAIN passes[p] :
           passes[p][i].key = passes[p][j].key => i = j
    /\ \A p \in DOMAIN passes :
           Len(BufferBarriers(passes[p]))
             = Cardinality({i \in DOMAIN passes[p] :
                               ~(passes[p][i].last_access = "None"
                                 /\ passes[p][i].access = "None")})
    /\ (/\ ret.op = "submit_frame" /\ ret.out = "ok"
        /\ ret.arg.transfer_list # <<>>
        /\ ret.arg.render_graph = EmptyRenderGraph) =>
           LET made == ret.val.executed[1].made
           IN /\ made # <<>> => made = passes[Len(passes)]
              /\ {made[i].key : i \in DOMAIN made}
                   = {h \in TransferHandles(ret.arg.transfer_list) : Resolvable(h)}
              /\ Len(BufferBarriers(made))
                   = Cardinality({h \in TransferHandles(ret.arg.transfer_list) :
                                     Resolvable(h)})
              /\ \A i \in DOMAIN made :
                     made[i].key.tag = "Persistent" =>
                         SlotMapGet(rm.buffers, made[i].key.key).last_access
                           = made[i].access
    /\ (/\ ret.op = "get_and_update_buffer_resource"
        /\ ret.val # Null
        /\ ret.val.last_access = "None"
        /\ ret.arg.new_last_access = "None") =>
           /\ BufferBarriers(passes[Len(passes)]) = <<>>
           /\ SlotMapGet(rm.buffers, ret.arg.key).last_access = ret.arg.new_last_access

\* a pass of two transfers into the same target, after a None to None transition
C15_Witness ==
    /\ ret.op = "submit_frame"
    /\ ret.out = "ok"
    /\ Len(ret.arg.transfer_list) = 2
    /\ ret.arg.transfer_list[1][2] = ret.arg.transfer_list[2][2]
    /\ Len(ret.val.executed[1].made) = 3
    /\ \E p \in DOMAIN passes :
           /\ Len(passes[p]) = 1
           /\ passes[p][1].last_access = "None"
           /\ passes[p][1].access = "None"

\* vk::PipelineStageFlags2, vk::AccessFlags2 and vk::ImageLayout values in use
StageFlags ==
    shader_all \cup {"TRANSFER", "VERTEX_INPUT", "DRAW_INDIRECT", "COLOR_ATTACHMENT_OUTPUT",
                     "EARLY_FRAGMENT_TESTS", "LATE_FRAGMENT_TESTS"}

AccessFlags ==
    {"MEMORY_READ", "MEMORY_WRITE", "VERTEX_ATTRIBUTE_READ", "INDEX_READ",
     "INDIRECT_COMMAND_READ", "UNIFORM_READ", "SHADER_STORAGE_READ", "SHADER_WRITE",
     "TRANSFER_READ", "TRANSFER_WRITE", "COLOR_ATTACHMENT_WRITE",
     "DEPTH_STENCIL_ATTACHMENT_WRITE", "SHADER_READ"}

ImageLayouts ==
    {"UNDEFINED", "TRANSFER_SRC_OPTIMAL", "TRANSFER_DST_OPTIMAL", "COLOR_ATTACHMENT_OPTIMAL",
     "ATTACHMENT_OPTIMAL", "SHADER_READ_ONLY_OPTIMAL", "GENERAL"}

\* every access value has flags, and None has none
BarrierFlagsTotal ==
    /\ \A a \in BufferAccesses :
           /\ BufferResourceAccess_get_barrier_flags(a).stage_mask \subseteq StageFlags
           /\ BufferResourceAccess_get_barrier_flags(a).access_flags \subseteq AccessFlags
    /\ \A a \in ImageAccesses, c \in BOOLEAN :
           /\ ImageResourceAccess_get_barrier_flags(a, c).stage_mask \subseteq StageFlags
           /\ ImageResourceAccess_get_barrier_flags(a, c).access_flags \subseteq AccessFlags
           /\ ImageResourceAccess_get_barrier_flags(a, c).layout \in ImageLayouts
    /\ BufferResourceAccess_get_barrier_flags("None") = BufferBarrierFlags({}, {})
    /\ \A c \in BOOLEAN :
           ImageResourceAccess_get_barrier_flags("None", c)
             = ImageBarrierFlags({}, {}, "UNDEFINED")

\* no step of the program changes the flags of any access value
BarrierFlagsUnchanged ==
    /\ \A a \in BufferAccesses :
           BufferResourceAccess_get_barrier_flags(a)' = BufferResourceAccess_get_barrier_flags(a)
    /\ \A a \in ImageAccesses, c \in BOOLEAN :
           ImageResourceAccess_get_barrier_flags(a, c)'
             = ImageResourceAccess_get_barrier_flags(a, c)

C17_MaterializedStartsUnused ==
    /\ (ret.op = "get_buffer_resources" /\ ret.out = "ok") =>
           \A i \in DOMAIN ret.arg :
               ret.arg[i].tag = "Transient" => ret.val[i].last_access = "None"
    /\ (ret.op = "get_image_resources" /\ ret.out = "ok") =>
           \A i \in DOMAIN ret.arg :
               ret.arg[i].tag \in {"Transient", "Swapchain"} => ret.val[i].last_usage = "None"

\* a transient buffer resolved while a persistent buffer has been written
C17_Witness ==
    /\ ret.op = "get_buffer_resources"
    /\ ret.out = "ok"
    /\ \E i \in DOMAIN ret.arg : ret.arg[i].tag = "Transient"
    /\ rm.transient_buffers # <<>>
    /\ \E k \in SlotMapKeys(rm.buffers) : SlotMapGet(rm.buffers, k).last_access = "StorageWrite"

\* trunc(x * f) for a factor f = <<numerator, denominator>>
Trunc(x, f) == (x * f[1]) \div f[2]

\* the size a transient size stands for: an exact size is itself, a relative
\* size is the size of its target scaled and truncated
RECURSIVE ResolvedSize(_, _, _)
ResolvedSize(size, images, swapchain_images) ==
    IF size.tag = "Exact" THEN size.extent
    ELSE LET of_target ==
                 IF size.target.tag = "Persistent"
                 THEN get_image(rm, size.target.key).size
                 ELSE LET d == images[size.target.index + 1]
                      IN CASE d.tag = "Persistent" -> get_image(rm, d.key).size
                           [] d.tag = "Swapchain" -> swapchain_images[d.index + 1]
                           [] d.tag = "Transient" ->
                                ResolvedSize(d.size, images, swapchain_images)
         IN Extent2D(Trunc(of_target.width, size.scale[1]),
                     Trunc(of_target.height, size.scale[2]))

Half == << <<1, 2>>, <<1, 2>> >>

Wide == << <<3, 2>>, <<1, 2>> >>

\* C18: a returned size is the exact size, or the size of the target, itself
\* resolved this way, with the width multiplied by scale[0] and the height by
\* scale[1] and both truncated; half of the 1600x900 swapchain image is 800x450,
\* and [1.5, 0.5] of [1.5, 0.5] of a 5x6 image is 10x1.
C18_RelativeSizeScalesTarget ==
    (ret.op = "get_transient_image_size") =>
        /\ ret.out = "ok" =>
               ret.val = ResolvedSize(ret.arg.size, ret.arg.images, ret.arg.swapchain_images)
        /\ (ret.out = "ok" /\ ret.arg.size.tag = "Exact") => ret.val = ret.arg.size.extent
        /\ (/\ ret.arg.size = Relative(Half, Transient(1))
            /\ Len(ret.arg.images) = 2
            /\ ret.arg.images[2] = SwapchainDesc(0)
            /\ ret.arg.swapchain_images = <<Extent2D(1600, 900)>>) =>
               (ret.out = "ok" /\ ret.val = Extent2D(800, 450))
        /\ (/\ ret.arg.size = Relative(Wide, Transient(1))
            /\ Len(ret.arg.images) = 2
            /\ ret.arg.images[2].tag = "Transient"
            /\ ret.arg.images[2].size.tag = "Relative"
            /\ ret.arg.images[2].size.scale = Wide
            /\ ret.arg.images[2].size.target.tag = "Persistent"
            /\ get_image(rm, ret.arg.images[2].size.target.key) # Null) =>
               (ret.out = "ok" /\ ret.val = Extent2D(10, 1))

\* a transient image relative to a transient image relative to a persistent one
C18_Witness ==
    /\ ret.op = "get_transient_image_size"
    /\ ret.out = "ok"
    /\ ret.arg.size = Relative(Wide, Transient(1))
    /\ Len(ret.arg.images) = 2
    /\ ret.arg.images[2].tag = "Transient"
    /\ ret.arg.images[2].size.tag = "Relative"
    /\ ret.arg.images[2].size.target.tag = "Persistent"
    /\ ret.val = Extent2D(10, 1)

\* C19: the resolution of a transient size never exhausts the stack: it ends
\* with a size or with an error value, also when a relative size leads back to
\* itself.
C19_CycleEndsWithError ==
    (ret.op = "get_transient_image_size") => ret.out \in {"ok", "err", "panic"}

\* C20: resolving an empty list of buffer or image descriptions returns an
\* empty list and leaves the resource manager as it was.
C20_EmptyResolutionNoEffect ==
    [][(/\ ret'.op \in {"get_buffer_resources", "get_image_resources"}
        /\ ret'.arg = <<>>)
          => (rm' = rm /\ ret'.out = "ok" /\ ret'.val = <<>>)]_vars

\* an empty buffer list resolved while a buffer awaits deletion and a
\* transient buffer of an earlier resolution exists
C20_Witness ==
    /\ ret.op = "get_buffer_resources"
    /\ ret.arg = <<>>
    /\ ret.out = "ok"
    /\ ret.val = <<>>
    /\ rm.buffers.slots # <<>>
    /\ rm.freed_buffers # <<>>
    /\ rm.transient_buffers # <<>>

\* s is the beginning of t
IsPrefix(s, t) == Len(s) <= Len(t) /\ SubSeq(t, 1, Len(s)) = s

\* the transient buffers and images a step leaves
TransientLists(self) == <<self.transient_buffers, self.transient_images>>

\* C21: a resolution adds one new object to the transient list per Transient
\* description it resolves, no step but flush_frame takes an object out of the
\* lists, and flush_frame leaves both lists empty whatever deletions are
\* pending.
C21_TransientsLiveUntilFlush ==
    [][/\ ret'.op = "flush_frame" => TransientLists(rm') = <<(<<>>), (<<>>)>>
       /\ ret'.op # "flush_frame" =>
              /\ IsPrefix(rm.transient_buffers, rm'.transient_buffers)
              /\ IsPrefix(rm.transient_images, rm'.transient_images)
       /\ (ret'.op = "get_buffer_resources" /\ ret'.out = "ok") =>
              Len(rm'.transient_buffers)
                = Len(rm.transient_buffers) + CountTag(ret'.arg, "Transient")
       /\ (ret'.op = "get_image_resources" /\ ret'.out = "ok") =>
              Len(rm'.transient_images)
                = Len(rm.transient_images) + CountTag(ret'.arg, "Transient")]_vars

\* flush_frame has cleared two transient objects while it drained one queue
\* and filled the other
C21_Witness ==
    /\ ret.op = "flush_frame"
    /\ ret.val.cleared = 2
    /\ ret.val.drained >= 1
    /\ rm.freed_buffers2 # <<>>
    /\ TransientLists(rm) = <<(<<>>), (<<>>)>>

\* the usage a pass declares for a handle
UsageOf(buffer_usages, handle) ==
    buffer_usages[CHOOSE i \in DOMAIN buffer_usages : buffer_usages[i][1] = handle][2]

\* the names of the passes in the order they ran
RECURSIVE PassNames(_)
PassNames(pass_list) ==
    IF pass_list = <<>> THEN <<>> ELSE <<Head(pass_list).name>> \o PassNames(Tail(pass_list))

C23_AcquireTerminates ==
    (swapchain.pc = "loop") ~> (swapchain.pc = "idle" \/ ~Running)

\* C24: a turn of the loop that is answered with ERROR_DEVICE_LOST rebuilds
\* nothing, ends the call and hands the error to the caller
C24_DeviceLostIsFatal ==
    [][(/\ ret'.op = "acquire_next_image"
        /\ ret'.out # "call"
        /\ ret'.arg = Err("ERROR_DEVICE_LOST"))
       => /\ ret'.out = "err"
          /\ ret'.log = 0
          /\ swapchain'.handle = swapchain.handle
          /\ swapchain'.pc = "idle"]_vars

\* the swapchains the device holds for a surface
SwapchainsOf(self, surface) == {e \in self.swapchains : e.surface = surface}

\* C25: a surface never has more than one swapchain; configure_surface creates
\* one only when the surface has none and otherwise changes the settings of
\* the one it has, which stays the same object; release_surface removes the
\* swapchain of its surface and no other
C25_OneSwapchainPerSurface ==
    /\ [](\A surface \in surface_list : Cardinality(SwapchainsOf(swapchain_manager, surface)) <= 1)
    /\ [][ /\ (ret'.op = "configure_surface" /\ ret'.out = "ok") =>
              LET surface == ret'.arg
                  before == SwapchainsOf(swapchain_manager, surface)
                  after == SwapchainsOf(swapchain_manager', surface)
              IN /\ Cardinality(after) = 1
                 /\ \A e \in after : e.settings = ret'.val
                 /\ before # {} =>
                        /\ {e.handle : e \in after} = {e.handle : e \in before}
                        /\ swapchain_manager'.created = swapchain_manager.created
                 /\ before = {} =>
                        /\ \A e \in after :
                               \A other \in swapchain_manager.swapchains : e.handle # other.handle
                        /\ swapchain_manager'.created = swapchain_manager.created + 1
                 /\ swapchain_manager'.swapchains \ after
                      = swapchain_manager.swapchains \ before
           /\ (ret'.op = "release_surface" /\ ret'.out = "ok") =>
              /\ SwapchainsOf(swapchain_manager', ret'.arg) = {}
              /\ swapchain_manager'.swapchains
                   = swapchain_manager.swapchains \ SwapchainsOf(swapchain_manager, ret'.arg)
           /\ ret'.out # "ok" => swapchain_manager' = swapchain_manager]_vars

\* the second surface was reconfigured with its swapchain kept, after the
\* first was configured and released
C25_Witness ==
    /\ ret.op = "configure_surface"
    /\ ret.out = "ok"
    /\ ret.arg = 2
    /\ ret.val = "Immediate"
    /\ ret.log = 0
    /\ swapchain_manager.created = 2
    /\ swapchain_manager.swapchains = {[surface |-> 2, handle |-> 2, settings |-> "Immediate"]}
    /\ released = {1}

\* C26: a surface that release_surface was called for has no swapchain again
C26_ReleasedIsTerminal ==
    \A surface \in released : SwapchainsOf(swapchain_manager, surface) = {}

\* C28: a create_buffer, create_image or update_data_to_buffer that returns an
\* error leaves the tables with their bindings, the deletion queues and the
\* transfer list as they were, and has issued no handle
C28_FailedCreationChangesNothing ==
    [][(/\ ret'.op \in {"create_buffer", "create_image", "update_data_to_buffer"}
        /\ ret'.out = "err")
       => /\ ret'.val \in {Err("AllocationFailure"), Err("ERROR_MEMORY_MAP_FAILED")}
          /\ rm' = rm
          /\ transfer_list' = transfer_list
          /\ issued' = issued]_vars

\* the staging memory of an upload could not be mapped while an earlier upload
\* is queued, its staging buffer awaits deletion and an image is in its table
C28_Witness ==
    /\ ret.op = "update_data_to_buffer"
    /\ ret.val = Err("ERROR_MEMORY_MAP_FAILED")
    /\ Len(transfer_list) = 1
    /\ rm.freed_buffers # <<>>
    /\ \E k \in ImageKeys : SlotMapContains(rm.images, k)

\* the resources a graph declares are transient or swapchain resources, and
\* its passes use no other
OnlyTransient(render_graph) ==
    /\ \A i \in DOMAIN render_graph.buffers : render_graph.buffers[i].tag # "Persistent"
    /\ \A i \in DOMAIN render_graph.images : render_graph.images[i].tag # "Persistent"
    /\ \A i \in DOMAIN render_graph.passes :
           \A j \in DOMAIN render_graph.passes[i].buffer_usages :
               render_graph.passes[i].buffer_usages[j][1].tag # "Persistent"

\* C29: a frame whose graph is made of transient and swapchain resources only,
\* submitted with no upload pending, leaves the tables of persistent resources
\* with their last accesses and the deletion queues as they were, and the
\* executor is handed no transfer pass: the passes of the graph and no other run
C29_TransientGraphLeavesPersistent ==
    [][(/\ ret'.op = "submit_frame"
        /\ OnlyTransient(ret'.arg.render_graph)
        /\ transfer_list = <<>>)
       => /\ [rm' EXCEPT !.transient_buffers = rm.transient_buffers,
                         !.transient_images = rm.transient_images] = rm
          /\ ret'.val.transfer_pass = Null
          /\ ret'.out = "ok" =>
                 PassNames(ret'.val.executed) = PassNames(ret'.arg.render_graph.passes)]_vars

\* the graph of render_graph_test was submitted with no upload pending while
\* the table holds a buffer that a transfer wrote and one that a transfer read
C29_Witness ==
    /\ ret.op = "submit_frame"
    /\ ret.out = "ok"
    /\ ret.arg.render_graph = RenderGraphTest
    /\ ret.arg.transfer_list = <<>>
    /\ PassNames(ret.val.executed) = <<"Test">>
    /\ Len(rm.transient_buffers) = 1
    /\ Len(rm.transient_images) = 1
    /\ \E k \in SlotMapKeys(rm.buffers) : SlotMapGet(rm.buffers, k).last_access = "TransferWrite"
    /\ \E k \in SlotMapKeys(rm.buffers) : SlotMapGet(rm.buffers, k).last_access = "TransferRead"

\* the descriptor slots held: a slot belongs to the binding of a resource and
\* is held for as long as the table holds the resource
DescriptorSlots(self) ==
    {<<"storage_buffer", k>> : k \in {j \in SlotMapKeys(self.buffers) :
                                        get_buffer(self, j).storage_binding = "Some"}}
    \cup {<<"storage_image", k>> : k \in {j \in SlotMapKeys(self.images) :
                                          get_image(self, j).storage_binding = "Some"}}
    \cup {<<"sampled_image", k>> : k \in {j \in SlotMapKeys(self.images) :
                                          get_image(self, j).sampled_binding = "Some"}}
    \cup {<<"sampler", k>> : k \in {j \in SlotMapKeys(self.samplers) :
                                    get_sampler(self, j).binding = "Some"}}

\* the resources of the tables, by the kind of slot they can hold
Resources(self) ==
    {<<"storage_buffer", k>> : k \in SlotMapKeys(self.buffers)}
    \cup {<<kind, k>> : kind \in {"storage_image", "sampled_image"}, k \in SlotMapKeys(self.images)}
    \cup {<<"sampler", k>> : k \in SlotMapKeys(self.samplers)}

KeysMade(made) == {made[i].key : i \in DOMAIN made}

\* C31: when submit_frame runs its transfer pass, the staging buffer of each
\* pending upload is in the buffer table, and the pass reads it, if flush_frame
\* has run at most once since the upload; it is gone from the table, and the
\* pass finds nothing under its key, if flush_frame has run twice or more
C31_StagingAliveForOneFlush ==
    [][(ret'.op = "submit_frame") =>
          \A i \in DOMAIN transfer_list :
              LET staging_handle == transfer_list[i][1]
                  n == flushes.buffers[staging_handle.key]
              IN /\ n >= 0
                 /\ n <= 1 =>
                       /\ SlotMapContains(rm.buffers, staging_handle.key)
                       /\ ret'.out = "ok" =>
                              \E j \in DOMAIN ret'.val.executed[1].made :
                                  /\ ret'.val.executed[1].made[j].key = staging_handle
                                  /\ ret'.val.executed[1].made[j].access = "TransferRead"
                 /\ n >= 2 =>
                       /\ ~SlotMapContains(rm.buffers, staging_handle.key)
                       /\ ret'.out = "ok" =>
                              staging_handle \notin KeysMade(ret'.val.executed[1].made)]_vars

\* a frame ran with two uploads pending: since the first flush_frame had run
\* twice and its staging buffer was not found, since the second once and its
\* staging buffer was read
C31_Witness ==
    /\ ret.op = "submit_frame"
    /\ ret.out = "ok"
    /\ Len(ret.arg.transfer_list) = 2
    /\ flushes.buffers[ret.arg.transfer_list[1][1].key] = 2
    /\ flushes.buffers[ret.arg.transfer_list[2][1].key] = 1
    /\ ret.arg.transfer_list[1][1] \notin KeysMade(ret.val.executed[1].made)
    /\ ret.arg.transfer_list[2][1] \in KeysMade(ret.val.executed[1].made)

\* C32: a submit_frame that returns an error leaves the pending uploads in the
\* transfer list
C32_FailedFrameKeepsUploads ==
    [][(ret'.op = "submit_frame" /\ ret'.out = "err") => transfer_list' = transfer_list]_vars

\* C33: a create_buffer_init that returns an error leaves the resource manager
\* as it was: the buffer table holds no buffer made by the call
C33_FailedInitLeavesNoBuffer ==
    [][(ret'.op = "create_buffer_init" /\ ret'.out = "err")
       => /\ rm' = rm
          /\ SlotMapKeys(rm'.buffers) \subseteq SlotMapKeys(rm.buffers)]_vars

\* the transient descriptions among the first n of a list
TransientsBefore(descs, n) == CountTag(SubSeq(descs, 1, n), "Transient")

\* a resolved buffer is the one its description asks for
BufferResolvedFrom(self, desc, resource) ==
    IF desc.tag = "Persistent"
    THEN /\ resource.buffer = get_buffer(self, desc.key)
         /\ resource.last_access = SlotMapGet(self.buffers, desc.key).last_access
    ELSE /\ resource.buffer.storage = desc.storage
         /\ resource.last_access = "None"

\* a resolved image is the one its description asks for
ImageResolvedFrom(self, desc, resource) ==
    IF desc.tag = "Persistent" THEN resource.image = get_image(self, desc.key)
    ELSE IF desc.tag = "Transient"
    THEN /\ resource.image.size = desc.size.extent
         /\ resource.image.storage = desc.storage
         /\ resource.image.sampled = desc.sampled
    ELSE resource.image.size = Extent2D(1600, 900)

C35_IndexFromGoodAcquire ==
    [][(ret'.op = "acquire_next_image" /\ ret'.out # "call") =>
          LET good == ret'.arg.tag = "Ok" /\ ~ret'.arg.suboptimal
          IN /\ ret'.out = "ok" <=> good
             /\ good =>
                    /\ ret'.val = ret'.arg.index
                    /\ ret'.log = 0
                    /\ swapchain'.handle = swapchain.handle
                    /\ swapchain'.rebuilds = swapchain.rebuilds
                    /\ swapchain'.pc = "idle"
             /\ ~good =>
                    /\ ret'.val = Null
                    /\ ret'.log = 1
                    /\ ret'.out \in {"retry", "panic"}
                    /\ ret'.out = "retry" =>
                           /\ swapchain'.rebuilds = Min(swapchain.rebuilds + 1, MaxRebuilds)
                           /\ swapchain'.handle # swapchain.handle
                           /\ swapchain'.live = {swapchain'.handle}
                           /\ swapchain'.pc = "loop"]_vars

\* image 0 was returned by an acquire that succeeded, after two rebuilds
C35_Witness ==
    /\ ret.op = "acquire_next_image"
    /\ ret.out = "ok"
    /\ ret.arg = AcquireOk(0, FALSE)
    /\ ret.val = 0
    /\ swapchain.rebuilds = 2
    /\ swapchain.handle = 3

C37_ClampedToCapabilities ==
    /\ ret.op = "get_image_count" =>
          LET c == ret.arg[1]
              desired == ret.arg[2]
          IN /\ ret.out = "ok"
             /\ c.min_image_count <= ret.val /\ ret.val <= c.max_image_count
             /\ (c.min_image_count <= desired /\ desired <= c.max_image_count)
                   => ret.val = desired
    /\ ret.op = "get_size" =>
          LET c == ret.arg[1]
              desired == ret.arg[2]
          IN /\ ret.out = "ok"
             /\ c.current_extent.width # U32_MAX => ret.val = c.current_extent
             /\ c.current_extent.width = U32_MAX =>
                   /\ ExtentWithin(ret.val, c.min_image_extent, c.max_image_extent)
                   /\ ret.val.width \in {desired.width, c.min_image_extent.width,
                                          c.max_image_extent.width}
                   /\ ret.val.height \in {desired.height, c.min_image_extent.height,
                                           c.max_image_extent.height}
                   /\ ExtentWithin(desired, c.min_image_extent, c.max_image_extent)
                         => ret.val = desired

\* the same for get_size alone, and for get_image_count when the surface
\* reports a maximum
C37_ClampedWhenLimited ==
    (ret.op = "get_image_count" => ret.arg[1].max_image_count # 0)
        => C37_ClampedToCapabilities

\* get_image_count(3), as rebuild calls it, panicked on a surface that
\* reports no maximum
C37_PanicWitness ==
    /\ ret.op = "get_image_count"
    /\ ret.arg[1].max_image_count = 0
    /\ ret.arg[2] = 3
    /\ ret.out = "panic"

\* C38: the usage of the create info has SAMPLED exactly when SAMPLED was
\* requested, STORAGE exactly when STORAGE was requested, the attachment bit
\* of the format's kind exactly when ATTACHMENT was requested, and both
\* transfer bits always
C38_UsageBitsIndependent ==
    ret.op = "get_vk_texture_2d_create_info" =>
        /\ ("SAMPLED" \in ret.val.usage) = ("SAMPLED" \in ret.arg.bindings)
        /\ ("STORAGE" \in ret.val.usage) = ("STORAGE" \in ret.arg.bindings)
        /\ ("COLOR_ATTACHMENT" \in ret.val.usage)
              = (ret.arg.attachment /\ ret.val.format \in ColorFormats)
        /\ ("DEPTH_STENCIL_ATTACHMENT" \in ret.val.usage)
              = (ret.arg.attachment /\ ret.val.format \in DepthFormats)
        /\ {"TRANSFER_SRC", "TRANSFER_DST"} \subseteq ret.val.usage

\* both transfer bits are always set, and no attachment bit without ATTACHMENT
C38_TransferBitsAlways ==
    ret.op = "get_vk_texture_2d_create_info" =>
        /\ {"TRANSFER_SRC", "TRANSFER_DST"} \subseteq ret.val.usage
        /\ ~ret.arg.attachment =>
              ret.val.usage \cap {"COLOR_ATTACHMENT", "DEPTH_STENCIL_ATTACHMENT"} = {}

\* SAMPLED alone was requested and the usage has STORAGE
C38_SampledSetsStorage ==
    /\ ret.op = "get_vk_texture_2d_create_info"
    /\ ret.arg.bindings = {"SAMPLED"}
    /\ "STORAGE" \in ret.val.usage

\* an attachment of a depth format has the colour attachment bit
C38_DepthGetsColorBit ==
    /\ ret.op = "get_vk_texture_2d_create_info"
    /\ ret.arg.attachment
    /\ ret.val.format \in DepthFormats
    /\ "COLOR_ATTACHMENT" \in ret.val.usage

\* C39: a failing AshImage::new returns an error and leaves no image and no
\* allocation behind, whichever step failed; a succeeding one returns an
\* AshImage whose handle and allocation are new and live; nothing is released
\* that was not live
C39_FailedNewHoldsNothing ==
    [][ /\ ash_images'.stale = 0
        /\ (ret'.op = "AshImage_new" /\ ret'.arg # "ok") =>
              /\ ret'.out = "err"
              /\ ret'.val.tag = "Err"
              /\ ash_images' = ash_images
        /\ (ret'.op = "AshImage_new" /\ ret'.arg = "ok") =>
              /\ ret'.out = "ok"
              /\ ret'.val.handle \notin ash_images.images
              /\ ret'.val.allocation \notin ash_images.allocations
              /\ ash_images'.images = ash_images.images \cup {ret'.val.handle}
              /\ ash_images'.allocations = ash_images.allocations \cup {ret'.val.allocation}
              /\ ash_images'.owned = ash_images.owned \cup {ret'.val}]_vars

\* the bind failed while another AshImage was held, and only that one is live
C39_Witness ==
    /\ ret.op = "AshImage_new"
    /\ ret.arg = "bind_failed"
    /\ ret.out = "err"
    /\ ash_images.owned = {AshImage(1, 1)}
    /\ ash_images.images = {1}
    /\ ash_images.allocations = {1}

====
